---- MODULE Spec2Model ----
(***************************************************************************)
(* Reconciliation engine of BVVRefTool: the three data containers          *)
(* (registrations, courses, persons), their update (snapshot merge)        *)
(* operations and the scheduled run of main().                             *)
(*                                                                         *)
(* A pandas DataFrame is a sequence of records (one record per row, one    *)
(* field per column).  NaN / NaT / None is the string NULL.  A registration*)
(* key (course_label, last_name, first_name, birthday) is the pair         *)
(* (label, person); waiting_position is 0 for every registration that is   *)
(* not on a waiting list (BVVScalper.get_registrations) and is left out.   *)
(***************************************************************************)
EXTENDS Integers, Sequences, FiniteSets, TLC

NULL == "NULL"

\* ------------------------------------------------------------------------
\* Bounds of the model
\* ------------------------------------------------------------------------
MaxStored == 2      \* rows of a stored registration dataset
MaxSnap == 2        \* rows of a registration snapshot

\* ------------------------------------------------------------------------
\* Generic helpers on sequences
\* ------------------------------------------------------------------------
Range(s) == {s[i] : i \in DOMAIN s}

Count(s, x) == Cardinality({i \in DOMAIN s : s[i] = x})

SameBag(s, t) ==
    /\ Len(s) = Len(t)
    /\ \A i \in DOMAIN s : Count(s, s[i]) = Count(t, s[i])

RECURSIVE Flatten(_)
Flatten(ss) == IF ss = <<>> THEN <<>> ELSE Head(ss) \o Flatten(Tail(ss))

Min(a, b) == IF a <= b THEN a ELSE b

\* non-decreasing index sequences of length n over 1..m (a multiset in a
\* fixed order)
SortedIdx(n, m) ==
    {s \in [1..n -> 1..m] : \A i \in 1..n : \A j \in 1..n : i < j => s[i] <= s[j]}

\* ------------------------------------------------------------------------
\* pandas value semantics
\* ------------------------------------------------------------------------
\* elementwise ==  : NaN is equal to nothing, itself included
PdEq(a, b) == a # NULL /\ b # NULL /\ a = b
\* elementwise !=  : the negation of ==, so NaN != NaN is True
PdNe(a, b) == ~PdEq(a, b)
\* df.replace("nan", np.nan).replace("", np.nan) on one cell
NormCell(v) == IF v = "" \/ v = "nan" THEN NULL ELSE v

\* ------------------------------------------------------------------------
\* Registrations
\* ------------------------------------------------------------------------
\* the registration keys in the lexicographic order an outer merge yields
RegKeys == << [label |-> "L1", person |-> "p1"], [label |-> "L2", person |-> "p2"] >>

RegStatusValues == <<"approved", "cancelled">>
\* "" stands for a portal text the scraper maps to no participation status
PartRawValues == <<"pending", "passed", "">>

KeyOf(r) == [label |-> r.label, person |-> r.person]

\* course id the course table holds for a label
CourseIdOf(label) == IF label = "L1" THEN "c1" ELSE "c2"

\* columns of a snapshot: course_label, last_name, first_name, birthday,
\* registration_status, participation_status
SnapRow(k, reg, part) ==
    [label |-> k.label, person |-> k.person, reg |-> reg, part |-> part]

SnapRowValues ==
    [i \in 1..(Len(RegKeys) * Len(RegStatusValues) * Len(PartRawValues)) |->
        LET n == i - 1
            nk == n \div (Len(RegStatusValues) * Len(PartRawValues))
            nr == (n \div Len(PartRawValues)) % Len(RegStatusValues)
            np == n % Len(PartRawValues)
        IN SnapRow(RegKeys[nk + 1], RegStatusValues[nr + 1], PartRawValues[np + 1])]

\* at most one registration that is not cancelled per key: the portal lists
\* a key twice only after a cancellation
OneActivePerKey(s) ==
    \A i \in DOMAIN s : \A j \in DOMAIN s :
        (i # j /\ KeyOf(s[i]) = KeyOf(s[j]))
            => (s[i].reg = "cancelled" \/ s[j].reg = "cancelled")

\* the snapshots BVVScalper.get_registrations can deliver (never empty: an
\* empty frame makes update fetch again)
RegSnapshots ==
    UNION {
        {s \in {[i \in 1..n |-> SnapRowValues[idx[i]]] : idx \in SortedIdx(n, Len(SnapRowValues))} :
            OneActivePerKey(s)} : n \in 1..MaxSnap}

\* columns of the stored dataset (get_data_types), waiting_position left out
StoredRow(k, reg, part, conf, cid, status) ==
    [label |-> k.label, person |-> k.person, reg |-> reg, part |-> part,
     conf |-> conf, cid |-> cid, status |-> status]

Proj(r) == [label |-> r.label, person |-> r.person, reg |-> r.reg, part |-> r.part]

\* DataContainer.validate_data + RegistrationContainer.validate_data on a
\* snapshot: empty strings become null (the snapshot has no
\* confirmation_status column)
RegValidateRow(r) == [r EXCEPT !.reg = NormCell(r.reg), !.part = NormCell(r.part)]

RegValidate(S) == [i \in DOMAIN S |-> RegValidateRow(S[i])]

\* the rows of s at the indices I, in order (a boolean-mask selection)
RECURSIVE Pick(_, _, _)
Pick(s, I, i) ==
    IF i > Len(s) THEN <<>>
    ELSE (IF i \in I THEN <<s[i]>> ELSE <<>>) \o Pick(s, I, i + 1)

Sel(s, I) == Pick(s, I, 1)

\* self.data.loc[self.data["registration_status"] != "cancelled"]
NotCancelled(D) == Sel(D, {i \in DOMAIN D : D[i].reg # "cancelled"})

\* self.data.loc[self.data["registration_status"] == "cancelled"].copy()
Cancelled(D) == Sel(D, {i \in DOMAIN D : D[i].reg = "cancelled"})

ProjHasNull(p) == p.label = NULL \/ p.person = NULL \/ p.reg = NULL \/ p.part = NULL

\* keys of old_cancelled[df.columns].value_counts(): the distinct row values
\* on the snapshot's columns; value_counts drops every row holding a null
OldCountValues(C) == {p \in {Proj(C[i]) : i \in DOMAIN C} : ~ProjHasNull(p)}

OldCount(C, v) == Cardinality({i \in DOMAIN C : Proj(C[i]) = v})

\* (df == row).all(axis=1) for one snapshot row
SnapRowPdEq(a, v) ==
    /\ PdEq(a.label, v.label)
    /\ PdEq(a.person, v.person)
    /\ PdEq(a.reg, v.reg)
    /\ PdEq(a.part, v.part)

\* for _ in range(count): drop the first row equal to v, stop when none is
RECURSIVE DropFirst(_, _, _)
DropFirst(s, v, n) ==
    IF n = 0 \/ s = <<>> THEN s
    ELSE IF SnapRowPdEq(Head(s), v) THEN DropFirst(Tail(s), v, n - 1)
    ELSE <<Head(s)>> \o DropFirst(Tail(s), v, n)

RECURSIVE SubtractAll(_, _, _)
SubtractAll(s, C, vals) ==
    IF vals = {} THEN s
    ELSE LET v == CHOOSE x \in vals : TRUE
         IN SubtractAll(DropFirst(s, v, OldCount(C, v)), C, vals \ {v})

\* variant: the snapshot goes into the merge as it came
SubtractNone(S, C) == S

\* the snapshot after the already known cancelled registrations are removed
SubtractCancelled(S, C) == SubtractAll(S, C, OldCountValues(C))

\* pd.merge(left, right, on=keys, how='outer', indicator=True) for one key
\* value k; LK and RK hold the key of each row of L and of R
MergeKey(L, R, LK, RK, k) ==
    LET Lk == Sel(L, {i \in DOMAIN L : LK[i] = k})
        Rk == Sel(R, {i \in DOMAIN R : RK[i] = k})
    IN IF Lk = <<>>
       THEN [j \in DOMAIN Rk |-> [ind |-> "right_only", left |-> <<>>, right |-> <<Rk[j]>>]]
       ELSE IF Rk = <<>>
       THEN [i \in DOMAIN Lk |-> [ind |-> "left_only", left |-> <<Lk[i]>>, right |-> <<>>]]
       ELSE [n \in 1..(Len(Lk) * Len(Rk)) |->
                [ind |-> "both",
                 left |-> <<Lk[((n - 1) \div Len(Rk)) + 1]>>,
                 right |-> <<Rk[((n - 1) % Len(Rk)) + 1]>>]]

\* the outer merge lists the keys in sorted order
OuterMerge(L, R, LK, RK, keys) ==
    Flatten([i \in DOMAIN keys |-> MergeKey(L, R, LK, RK, keys[i])])

\* the key column(s) of a registration frame
RegKeyCol(s) == [i \in DOMAIN s |-> KeyOf(s[i])]

RegOuterMerge(L, R) == OuterMerge(L, R, RegKeyCol(L), RegKeyCol(R), RegKeys)

\* variant: the snapshot's value is taken whatever it is
OvwAlways(old, new) == new

\* merged.loc[~update.isna(), column] = update : a null never overwrites
Ovw(old, new) == IF new # NULL THEN new ELSE old

\* the row of merged_df after the overwrite loop and the drop of the
\* _update columns
RegMergedRow(e) ==
    IF e.ind = "both"
    THEN [e.left[1] EXCEPT !.reg = Ovw(e.left[1].reg, e.right[1].reg),
                           !.part = Ovw(e.left[1].part, e.right[1].part)]
    ELSE IF e.ind = "left_only" THEN e.left[1]
    ELSE StoredRow(KeyOf(e.right[1]), e.right[1].reg, e.right[1].part, NULL, NULL, NULL)

\* variant: the stored status is not looked at
RegChangedConditionNoMark(e) ==
    /\ e.ind = "both"
    /\ \/ PdNe(e.left[1].part, e.right[1].part)
       \/ PdNe(e.left[1].reg, e.right[1].reg)

\* changed_condition, evaluated before the overwrite
RegChangedCondition(e) ==
    /\ e.ind = "both"
    /\ \/ PdNe(e.left[1].part, e.right[1].part)
       \/ PdNe(e.left[1].reg, e.right[1].reg)
       \/ e.left[1].status = "changed"

StoredRowPdEq(a, b) ==
    /\ PdEq(a.label, b.label)
    /\ PdEq(a.person, b.person)
    /\ PdEq(a.reg, b.reg)
    /\ PdEq(a.part, b.part)
    /\ PdEq(a.conf, b.conf)
    /\ PdEq(a.cid, b.cid)
    /\ PdEq(a.status, b.status)

\* lines 166-168: a merged row becomes 'both' when it equals, cell by cell,
\* a row of common_rows (the merged rows that an inner merge on every column
\* pairs with an old cancelled row)
Retagged(row, merged, C) ==
    /\ Len(C) # 0
    /\ \E m \in Range(merged) :
        /\ \E o \in Range(C) : m = o
        /\ StoredRowPdEq(row, m)

\* confirmation_status of a merged row (line 174)
RegNewConf(ind, row) ==
    IF ind = "right_only" /\ row.part = "pending" THEN "pending" ELSE row.conf

\* variant: a row the snapshot no longer lists is not told apart
RegNewStatusNoRemoved(ind, e) ==
    IF ind = "right_only" THEN "added"
    ELSE IF RegChangedCondition(e) THEN "changed"
    ELSE "unchanged"

\* status of a merged row (lines 178-181)
RegNewStatus(ind, e) ==
    IF ind = "left_only" THEN "removed"
    ELSE IF ind = "right_only" THEN "added"
    ELSE IF RegChangedCondition(e) THEN "changed"
    ELSE "unchanged"

RegClassify(e, merged, C) ==
    LET row == RegMergedRow(e)
        ind == IF Retagged(row, merged, C) THEN "both" ELSE e.ind
    IN [ind0 |-> e.ind, ind |-> ind, left |-> e.left, right |-> e.right,
        out |-> [row EXCEPT !.conf = RegNewConf(ind, row),
                            !.status = RegNewStatus(ind, e)]]

\* variant: the old cancelled rows are added again as they were stored
RegReappendAsStored(merged, C) == merged \o C

\* lines 183-185: the old cancelled rows are added again, status unchanged
RegReappend(merged, C) ==
    merged \o [i \in DOMAIN C |-> [C[i] EXCEPT !.status = "unchanged"]]

\* RegistrationContainer.update: the new dataset and what the merge did
RegUpdate(D, raw) ==
    LET S == RegValidate(raw)
        C == Cancelled(D)
        rem == SubtractCancelled(S, C)
        es == RegOuterMerge(NotCancelled(D), rem)
        merged == [i \in DOMAIN es |-> RegMergedRow(es[i])]
        cl == [i \in DOMAIN es |-> RegClassify(es[i], merged, C)]
    IN [before |-> D, raw |-> raw, snap |-> S, remaining |-> rem, cancelled |-> C,
        entries |-> cl,
        data |-> RegReappend([i \in DOMAIN cl |-> cl[i].out], C)]

\* ------------------------------------------------------------------------
\* Stored registration datasets a load can deliver: status is "unchanged"
\* after a save, or "changed" when the user marked the row in the file;
\* course_id was inserted before the save
\* ------------------------------------------------------------------------
PartStoredValues == <<"pending", "passed", NULL>>
StatusLoadedValues == <<"unchanged", "changed">>

StoredRowValues ==
    [i \in 1..(Len(RegKeys) * Len(RegStatusValues) * Len(PartStoredValues) * Len(StatusLoadedValues)) |->
        LET n == i - 1
            ns == n % Len(StatusLoadedValues)
            np == (n \div Len(StatusLoadedValues)) % Len(PartStoredValues)
            nr == (n \div (Len(StatusLoadedValues) * Len(PartStoredValues))) % Len(RegStatusValues)
            nk == n \div (Len(StatusLoadedValues) * Len(PartStoredValues) * Len(RegStatusValues))
        IN StoredRow(RegKeys[nk + 1], RegStatusValues[nr + 1], PartStoredValues[np + 1],
                     "confirmed", CourseIdOf(RegKeys[nk + 1].label), StatusLoadedValues[ns + 1])]

StoredDatasets ==
    UNION {
        {s \in {[i \in 1..n |-> StoredRowValues[idx[i]]] : idx \in SortedIdx(n, Len(StoredRowValues))} :
            OneActivePerKey(s)} : n \in 0..MaxStored}

\* ------------------------------------------------------------------------
\* Courses (columns id, label, registration_end and the two reminder
\* counters; the other columns behave like label and registration_end)
\* ------------------------------------------------------------------------
\* the course ids in sorted order
CourseIds == <<"c1", "c2">>

\* dates, earliest first
DateOrder == <<"d1", "d2">>

CourseLabelRaw == <<"L1", "L2", "">>
CourseDateRaw == <<"d1", "d2", NULL>>

CourseKey(r) == r.id

\* the id column of a course frame
CourseKeyCol(s) == [i \in DOMAIN s |-> CourseKey(s[i])]

CourseRow(id, label, regEnd, mrc, prc) ==
    [id |-> id, label |-> label, regEnd |-> regEnd, mrc |-> mrc, prc |-> prc]

\* CourseContainer._get_data_defaults
CourseDefaults == [mrc |-> "0", prc |-> "0"]

\* subset.fillna(data_defaults)
CourseFillDefaults(r) ==
    [r EXCEPT !.mrc = IF r.mrc = NULL THEN CourseDefaults.mrc ELSE r.mrc,
              !.prc = IF r.prc = NULL THEN CourseDefaults.prc ELSE r.prc]

\* DataContainer.validate_data on a course snapshot (columns id, label,
\* registration_end)
CourseValidate(S) == [i \in DOMAIN S |-> [S[i] EXCEPT !.label = NormCell(S[i].label)]]

\* variant: a course found in both frames stays as stored
CourseMergedRowStored(e) ==
    IF e.ind = "both" \/ e.ind = "left_only" THEN e.left[1]
    ELSE CourseFillDefaults(CourseRow(e.right[1].id, e.right[1].label, e.right[1].regEnd, NULL, NULL))

CourseMergedRow(e) ==
    IF e.ind = "both"
    THEN [e.left[1] EXCEPT !.label = Ovw(e.left[1].label, e.right[1].label),
                           !.regEnd = Ovw(e.left[1].regEnd, e.right[1].regEnd)]
    ELSE IF e.ind = "left_only" THEN e.left[1]
    ELSE CourseFillDefaults(CourseRow(e.right[1].id, e.right[1].label, e.right[1].regEnd, NULL, NULL))

\* what update tells its caller about a merged course: the returned frame
\* holds the right_only rows; the course frame has no status column
CourseReported(e) == IF e.ind = "right_only" THEN "added" ELSE "none"

\* sort_values(by=[..., "registration_end"], ascending=[..., False]): latest
\* registration_end first, nulls last, ties in the order they had
CourseSort(rows) ==
    Flatten([n \in DOMAIN DateOrder |->
                Sel(rows, {i \in DOMAIN rows : rows[i].regEnd = DateOrder[Len(DateOrder) + 1 - n]})])
        \o Sel(rows, {i \in DOMAIN rows : rows[i].regEnd = NULL})

\* registration_start of the portal's course: the course with the higher
\* id opened its registration later
CourseRegStart(id) == IF id = CourseIds[1] THEN DateOrder[1] ELSE DateOrder[2]

\* variant: the new courses in the order of the merge
CourseResultUnsorted(rows) == rows

\* result.sort_values(by=["registration_start"], ascending=False)
CourseResultSort(rows) ==
    Flatten([n \in DOMAIN DateOrder |->
                Sel(rows, {i \in DOMAIN rows :
                            CourseRegStart(rows[i].id) = DateOrder[Len(DateOrder) + 1 - n]})])

\* CourseContainer.update
CourseUpdate(D, raw) ==
    LET S == CourseValidate(raw)
        es == OuterMerge(D, S, CourseKeyCol(D), CourseKeyCol(S), CourseIds)
        cl == [i \in DOMAIN es |->
                 [ind |-> es[i].ind, left |-> es[i].left, right |-> es[i].right,
                  out |-> CourseMergedRow(es[i])]]
        rows == [i \in DOMAIN cl |-> cl[i].out]
    IN [before |-> D, raw |-> raw, snap |-> S, entries |-> cl,
        result |-> CourseResultSort(Sel(rows, {i \in DOMAIN cl : cl[i].ind = "right_only"})),
        data |-> CourseSort(rows)]

\* a table with at most one row per id, the rows of ids[i] drawn from rowSets[i]
TablesById(ids, rowSets) ==
    LET pick == [i \in DOMAIN ids |-> {<<>>} \cup {<<r>> : r \in rowSets[i]}]
    IN {Flatten(c) : c \in {f \in [DOMAIN ids -> UNION Range(pick)] :
                                \A i \in DOMAIN ids : f[i] \in pick[i]}}

CourseSnapRows(id) ==
    {[id |-> id, label |-> l, regEnd |-> d] : l \in Range(CourseLabelRaw), d \in Range(CourseDateRaw)}

\* the snapshots BVVScalper.get_courses can deliver: one row per portal
\* course, never empty (an empty frame makes update fetch again)
CourseSnapshots == TablesById(CourseIds, [i \in DOMAIN CourseIds |-> CourseSnapRows(CourseIds[i])]) \ {<<>>}

CourseStoredRows(id) ==
    {CourseRow(id, l, d, m, "0") : l \in {"L1", "L2"}, d \in {"d1", NULL}, m \in {"0", "1"}}

\* the course datasets a load can deliver, in the order save writes them
\* (registration_end ascending, nulls last)
CourseStoredDatasets ==
    {Sel(t, {i \in DOMAIN t : t[i].regEnd # NULL}) \o Sel(t, {i \in DOMAIN t : t[i].regEnd = NULL}) :
        t \in TablesById(CourseIds, [i \in DOMAIN CourseIds |-> CourseStoredRows(CourseIds[i])])}

\* ------------------------------------------------------------------------
\* Persons (columns: the key last_name, first_name, birthday as person;
\* license_type, license_category, help_count, failed_higher_license_count)
\* ------------------------------------------------------------------------
MaxPersonSnap == 3      \* rows of a person snapshot

\* the person keys in sorted order
PersonIds == <<"p1", "p2">>

PersonKey(r) == r.person

\* the key column(s) of a person frame
PersonKeyCol(s) == [i \in DOMAIN s |-> PersonKey(s[i])]

PersonRow(person, ltype, lcat, help, failed) ==
    [person |-> person, ltype |-> ltype, lcat |-> lcat, help |-> help, failed |-> failed]

\* PersonContainer._get_data_defaults (the columns modelled)
PersonDefaults == [ltype |-> "DK", lcat |-> "Halle", help |-> "0", failed |-> "0"]

PersonFillDefaults(r) ==
    [r EXCEPT !.ltype = IF r.ltype = NULL THEN PersonDefaults.ltype ELSE r.ltype,
              !.lcat = IF r.lcat = NULL THEN PersonDefaults.lcat ELSE r.lcat,
              !.help = IF r.help = NULL THEN PersonDefaults.help ELSE r.help,
              !.failed = IF r.failed = NULL THEN PersonDefaults.failed ELSE r.failed]

\* row.count() of a snapshot row (columns person, ltype, lcat)
PersonNonNullCount(r) ==
    (IF r.person # NULL THEN 1 ELSE 0) + (IF r.ltype # NULL THEN 1 ELSE 0)
        + (IF r.lcat # NULL THEN 1 ELSE 0)

\* variant: per key the earliest row, whatever it holds
RemoveDuplicatesFirst(S) ==
    LET first(k) ==
            LET I == {i \in DOMAIN S : S[i].person = k}
            IN {i \in I : \A j \in I : i <= j}
    IN Flatten([n \in DOMAIN PersonIds |-> Sel(S, first(PersonIds[n]))])

\* helpfunctions.remove_duplicates with the default subset: per key the row
\* with the most non-null cells, the earliest of them on a tie; sorted by key
RemoveDuplicates(S) ==
    LET best(k) ==
            LET I == {i \in DOMAIN S : S[i].person = k}
            IN {i \in I : \A j \in I :
                    \/ PersonNonNullCount(S[i]) > PersonNonNullCount(S[j])
                    \/ (PersonNonNullCount(S[i]) = PersonNonNullCount(S[j]) /\ i <= j)}
    IN Flatten([n \in DOMAIN PersonIds |-> Sel(S, best(PersonIds[n]))])

\* PersonContainer.validate_data on a snapshot
PersonValidate(S) ==
    RemoveDuplicates([i \in DOMAIN S |->
        [S[i] EXCEPT !.ltype = NormCell(S[i].ltype), !.lcat = NormCell(S[i].lcat)]])

PersonMergedRow(e) ==
    IF e.ind = "both"
    THEN [e.left[1] EXCEPT !.ltype = Ovw(e.left[1].ltype, e.right[1].ltype),
                           !.lcat = Ovw(e.left[1].lcat, e.right[1].lcat)]
    ELSE IF e.ind = "left_only" THEN e.left[1]
    ELSE PersonFillDefaults(PersonRow(e.right[1].person, e.right[1].ltype, e.right[1].lcat, NULL, NULL))

\* variant: keep_persons is ignored
PersonKeptFound(cl, keep) ==
    Sel(cl, {i \in DOMAIN cl : cl[i].ind \in {"both", "right_only"}})

\* merged_df[merged_df['_merge'].isin(['both', 'right_only'])] unless
\* keep_persons
PersonKept(cl, keep) ==
    Sel(cl, {i \in DOMAIN cl : keep \/ cl[i].ind \in {"both", "right_only"}})

\* PersonContainer.update; an empty frame returns at once
PersonUpdate(D, raw, keep) ==
    IF raw = <<>>
    THEN [before |-> D, raw |-> raw, keep |-> keep, snap |-> <<>>, entries |-> <<>>, data |-> D]
    ELSE
    LET S == PersonValidate(raw)
        es == OuterMerge(D, S, PersonKeyCol(D), PersonKeyCol(S), PersonIds)
        cl == [i \in DOMAIN es |->
                 [ind |-> es[i].ind, left |-> es[i].left, right |-> es[i].right,
                  out |-> PersonMergedRow(es[i])]]
        kept == PersonKept(cl, keep)
    IN [before |-> D, raw |-> raw, keep |-> keep, snap |-> S, entries |-> cl,
        data |-> [i \in DOMAIN kept |-> kept[i].out]]

PersonSnapRowValues ==
    {[person |-> p, ltype |-> t, lcat |-> c] :
        p \in Range(PersonIds), t \in {"C", ""}, c \in {"Beach", ""}}

\* person snapshots handed to update; a key may occur twice
PersonSnapshots == UNION {[1..n -> PersonSnapRowValues] : n \in 0..MaxPersonSnap}

PersonStoredRows(p) ==
    {PersonRow(p, t, c, h, "0") : t \in {"C", "DK"}, c \in {"Halle", "Beach"}, h \in {"0", "3"}}

\* the person datasets a load can deliver (validate_data removes duplicates)
PersonStoredDatasets == TablesById(PersonIds, [i \in DOMAIN PersonIds |-> PersonStoredRows(PersonIds[i])])

\* ------------------------------------------------------------------------
\* The scheduled run: load, update, insert_course_id,
\* manage_changed_registrations, save
\* ------------------------------------------------------------------------
MaxRuns == 2        \* scheduled runs of main()
MaxSaved == 1       \* rows of the file an earlier run left

\* the person and course data the run joins the registrations with: p1 is
\* a club member with a mail address, p2 is unknown to the person data and
\* to the portal's personal-data lookup
PersonMail(p) == p = "p1"
PersonMember(p) == p = "p1"

\* course_type and "course_date_end >= now" of a course
CourseTypeOf(cid) == IF cid = "c1" THEN "training" ELSE "refresher"
CourseActive(cid) == cid = "c2"

\* course_container.data of the run: one course per label
RunCourses == <<CourseRow("c1", "L1", "d1", "0", "0"), CourseRow("c2", "L2", "d1", "0", "0")>>

\* RegistrationContainer.validate_data / save: confirmation_status outside
\* confirmed, denied, pending becomes pending
ConfNorm(c) == IF c \in {"confirmed", "denied", "pending"} THEN c ELSE "pending"

\* DataContainer.load of the latest file: fillna(defaults), validate_data
RegLoad(f) ==
    [i \in DOMAIN f |->
        [f[i] EXCEPT !.conf = ConfNorm(f[i].conf),
                     !.status = IF f[i].status = NULL THEN "unchanged" ELSE f[i].status]]

\* RegistrationContainer.insert_course_id: inner merge on course_label
InsertCourseId(D, courses) ==
    Flatten([i \in DOMAIN D |->
        LET m == Sel(courses, {j \in DOMAIN courses : courses[j].label = D[i].label})
        IN [j \in DOMAIN m |-> [D[i] EXCEPT !.cid = m[j].id]]])

\* position of v in the sequence order, Len(order) + 1 when absent (nulls
\* sort last)
Rank(order, v) ==
    IF \E n \in DOMAIN order : order[n] = v
    THEN CHOOSE n \in DOMAIN order : order[n] = v
    ELSE Len(order) + 1

\* sort key of save: course_id, course_label, registration_status,
\* last_name, first_name
RegSaveRank(r) ==
    ((Rank(CourseIds, r.cid) * 3 + Rank(<<"L1", "L2">>, r.label)) * 3
        + Rank(RegStatusValues, r.reg)) * 3 + Rank(PersonIds, r.person)

\* rows in ascending rank, ties in the order they had
SortByRank(rows, rk) ==
    LET before(i) == {j \in DOMAIN rows :
                         \/ rk[j] < rk[i]
                         \/ rk[j] = rk[i] /\ j < i}
    IN [p \in DOMAIN rows |->
           rows[CHOOSE i \in DOMAIN rows : Cardinality(before(i)) = p - 1]]

\* RegistrationContainer.save up to the write: removed rows are dropped,
\* status is reset, confirmation_status normalised, rows sorted
RegSaveRows(D) ==
    LET kept == Sel(D, {i \in DOMAIN D : D[i].status # "removed"})
        rows == [i \in DOMAIN kept |->
                    [kept[i] EXCEPT !.status = "unchanged", !.conf = ConfNorm(kept[i].conf)]]
    IN SortByRank(rows, [i \in DOMAIN rows |-> RegSaveRank(rows[i])])

\* DataContainer.save: an empty dataset writes no file, the latest file
\* stays the one of the run before
RegSaveFile(f, D) == IF Len(RegSaveRows(D)) > 0 THEN RegSaveRows(D) ELSE f

\* manage_changed_registrations: the mails sent to players and the
\* registration dataset it leaves
Mail(r, template) == [label |-> r.label, person |-> r.person, template |-> template]

MailsOf(rows, I, template) ==
    LET m == Sel(rows, I) IN [i \in DOMAIN m |-> Mail(m[i], template)]

\* variant: a row a mail was sent for is marked as handled
ManageMarksHandled(D) ==
    LET withData == {i \in DOMAIN D : PersonMail(D[i].person)}
        K == Sel(D, withData)
    IN [mails |-> MailsOf(D, {i \in withData : D[i].status = "removed"}, "course_cancelled"),
        data |-> [i \in DOMAIN K |->
                    IF K[i].status = "removed" THEN [K[i] EXCEPT !.status = "unchanged"] ELSE K[i]]]

Manage(D) ==
    LET withData == {i \in DOMAIN D : PersonMail(D[i].person)}
        removed == {i \in withData : D[i].status = "removed"}
        club == {i \in withData :
                    PersonMember(D[i].person) /\ D[i].status \in {"changed", "added"}}
        success(t) == {i \in club : D[i].reg = "approved" /\ D[i].part = "passed"
                                    /\ CourseTypeOf(D[i].cid) = t}
        failed == {i \in club : D[i].reg = "approved" /\ D[i].part = "failed"}
        reset == {i \in failed : CourseTypeOf(D[i].cid) = "refresher" /\ CourseActive(D[i].cid)}
        missed == {i \in club : D[i].reg = "approved" /\ D[i].part = "missed"
                                /\ D[i].conf = "confirmed"}
        cancelled == {i \in club : D[i].reg = "cancelled"}
        pending == {i \in club : D[i].reg \in {"waiting", "approved"} /\ D[i].part = "pending"}
        afterReset == [i \in DOMAIN D |->
                          IF i \in reset THEN [D[i] EXCEPT !.part = "pending"] ELSE D[i]]
    IN [mails |-> MailsOf(D, removed, "course_cancelled")
                    \o MailsOf(D, success("training"), "course_success_training")
                    \o MailsOf(D, success("refresher"), "course_success_refresher")
                    \o MailsOf(D, failed \ reset, "course_failed")
                    \o MailsOf(D, missed, "course_missed")
                    \o MailsOf(D, cancelled, "course_cancelled")
                    \o MailsOf(D, {i \in pending : D[i].conf = "confirmed"}, "course_confirmed")
                    \o MailsOf(D, {i \in pending : D[i].conf = "pending"}, "course_ask_confirmation"),
        data |-> Sel(afterReset, withData)]

\* ------------------------------------------------------------------------
\* The columns of the frame handed to update.  A frame is its rows and the
\* set of its column names; a column the frame does not have is a field the
\* update does not read, "extra" is a column the stored dataset does not
\* have.
\* ------------------------------------------------------------------------
RegKeyCols == {"label", "person"}
RegCols == {"label", "person", "reg", "part"}
CourseKeyCols == {"id"}
CourseCols == {"id", "label", "regEnd"}
PersonKeyCols == {"person"}
PersonCols == {"person", "ltype", "lcat"}

\* the column sets of the frames: all columns, one column missing, one
\* column more
ColSets(all) == {all} \cup {all \ {c} : c \in all} \cup {all \cup {"extra"}}

\* the exception RegistrationContainer.update raises for a frame with the
\* columns cols, "none" when it runs to its end
RegFrameError(cols) ==
    IF ~(cols \subseteq RegCols) THEN "KeyError"                  \* line 139
    ELSE IF ~(RegKeyCols \subseteq cols) THEN "KeyError"          \* line 149
    ELSE IF ~({"reg", "part"} \subseteq cols) THEN "KeyError"     \* line 153
    ELSE "none"

\* an update that asks for no id column
CourseFrameErrorNoKeyTest(cols) ==
    IF ~(cols \subseteq CourseCols) THEN "KeyError" ELSE "none"

\* the exception CourseContainer.update raises
CourseFrameError(cols) ==
    IF ~(CourseKeyCols \subseteq cols) THEN "ValueError"          \* line 126
    ELSE IF ~(cols \subseteq CourseCols) THEN "KeyError"          \* line 147
    ELSE "none"

\* the exception PersonContainer.update raises; an empty frame returns
\* before its columns are looked at
PersonFrameError(raw, cols) ==
    IF raw = <<>> THEN "none"
    ELSE IF ~(PersonKeyCols \subseteq cols) THEN "KeyError"       \* remove_duplicates
    ELSE "none"

\* the rows hold nothing in the columns the frame does not have
RegBlank(raw, cols) ==
    \A i \in DOMAIN raw : "part" \notin cols => raw[i].part = ""

CourseBlank(raw, cols) ==
    \A i \in DOMAIN raw :
        /\ "label" \notin cols => raw[i].label = ""
        /\ "regEnd" \notin cols => raw[i].regEnd = NULL

PersonBlank(raw, cols) ==
    \A i \in DOMAIN raw :
        /\ "ltype" \notin cols => raw[i].ltype = ""
        /\ "lcat" \notin cols => raw[i].lcat = ""

\* an update that raised: self.data is not assigned, no row of the frame
\* was merged
Raised(D, cols, err) ==
    [before |-> D, raw |-> <<>>, snap |-> <<>>, remaining |-> <<>>, cancelled |-> <<>>,
     entries |-> <<>>, data |-> D, result |-> <<>>, keep |-> TRUE,
     cols |-> cols, error |-> err]

RegUpdateFrame(D, raw, cols) ==
    IF RegFrameError(cols) # "none" THEN Raised(D, cols, RegFrameError(cols))
    ELSE RegUpdate(D, raw) @@ [cols |-> cols, error |-> "none"]

CourseUpdateFrame(D, raw, cols) ==
    IF CourseFrameError(cols) # "none" THEN Raised(D, cols, CourseFrameError(cols))
    ELSE CourseUpdate(D, raw) @@ [cols |-> cols, error |-> "none"]

PersonUpdateFrame(D, raw, cols, keep) ==
    IF PersonFrameError(raw, cols) # "none"
    THEN [Raised(D, cols, PersonFrameError(raw, cols)) EXCEPT !.keep = keep]
    ELSE PersonUpdate(D, raw, keep) @@ [cols |-> cols, error |-> "none"]

\* ------------------------------------------------------------------------
\* State
\* ------------------------------------------------------------------------
NoUpdate ==
    [before |-> <<>>, raw |-> <<>>, snap |-> <<>>, remaining |-> <<>>, cancelled |-> <<>>,
     entries |-> <<>>, data |-> <<>>, result |-> <<>>, keep |-> TRUE,
     cols |-> {}, error |-> "none"]

\* Python's None, beside the messages get_html_message builds
None == [none |-> TRUE]

\* ReportReason
ReportReasons ==
    <<"BUG", "MISSING_DATA", "CORRECTED_MISSING_DATA", "NOT_IN_CLUB", "MISSED_CONFIRMED",
      "FAILED", "REMOVED", "SUCCESS", "CANCELLED", "CONFIRMATION_CONFIRMED",
      "CONFIRMATION_DENIED", "CONFIRMATION_PENDING">>

\* ManagementReport(): the lists as the numbers of their entries,
\* registrations as the reasons whose table holds a row
NoReport ==
    [to_do |-> 0, general_info |-> 0, new_courses |-> 0, course_reminder |-> 0,
     registrations |-> {}]

\* the address mail_settings.mail_notifications.management.mail_to names
ManagementReportMail == "management@club"

\* Mailer(config)
NoMailer == [mails_only_to_management |-> FALSE, management_report_mail |-> ManagementReportMail]

VARIABLES
    container,  \* the container whose operations this behaviour exercises
    regData,    \* RegistrationContainer.data
    courseData, \* CourseContainer.data
    personData, \* PersonContainer.data
    last,       \* what the latest update did (the update's record)
    first,      \* what the update before the latest did
    calls,      \* number of update calls made on the loaded dataset
    pc,         \* position of main() in the scheduled run
    run,        \* number of the scheduled run
    file,       \* rows of the latest registrations_data_<date>.csv
    mails,      \* mails sent in this run
    prevMails,  \* player mails sent in the run before
    prevRaw,    \* registration snapshot of the run before
    disk,       \* the data csv files of each container's directory, oldest first
    day,        \* date.today() of the run, as a day number
    atStart,    \* the files on disk when the run started
    report,     \* ManagementReport.instance()
    mailer      \* Mailer.instance()

updVars == <<container, regData, courseData, personData, last, first, calls>>
runVars == <<pc, run, file, mails, prevMails, prevRaw>>
diskVars == <<disk, day, atStart>>
mailVars == <<report, mailer>>

\* the containers in the order main() loads and saves them
Entities == <<"course", "person", "registration">>

\* no data file in any directory
NoDisk == [e \in Range(Entities) |-> <<>>]
vars == <<container, regData, courseData, personData, last, first, calls,
          pc, run, file, mails, prevMails, prevRaw, disk, day, atStart,
          report, mailer>>

Containers == {"registration", "course", "person"}

\* the datasets as load leaves them; one container is exercised
Init ==
    /\ container \in Containers
    /\ regData \in (IF container = "registration" THEN StoredDatasets ELSE {<<>>})
    /\ courseData \in (IF container = "course" THEN CourseStoredDatasets ELSE {<<>>})
    /\ personData \in (IF container = "person" THEN PersonStoredDatasets ELSE {<<>>})
    /\ last = NoUpdate
    /\ first = NoUpdate
    /\ calls = 0
    /\ pc = "loaded"
    /\ run = 1
    /\ file = <<>>
    /\ mails = <<>>
    /\ prevMails = <<>>
    /\ prevRaw = <<>>
    /\ disk = NoDisk
    /\ day = 1
    /\ atStart = NoDisk
    /\ report = NoReport
    /\ mailer = NoMailer

\* registration_container.update(df) on the loaded dataset
RegUpdateCall ==
    /\ container = "registration"
    /\ calls = 0
    /\ \E raw \in RegSnapshots : \E cols \in ColSets(RegCols) :
        LET u == RegUpdateFrame(regData, raw, cols)
        IN /\ RegBlank(raw, cols)
           /\ regData' = u.data
           /\ last' = u
    /\ first' = last
    /\ calls' = 1
    /\ UNCHANGED <<container, courseData, personData>>
    /\ UNCHANGED runVars
    /\ UNCHANGED diskVars
    /\ UNCHANGED mailVars

\* update called again with the snapshot of the call before
RegUpdateAgain ==
    /\ container = "registration"
    /\ calls = 1
    /\ last.error = "none"
    /\ LET u == RegUpdateFrame(regData, last.raw, last.cols)
       IN /\ regData' = u.data
          /\ last' = u
    /\ first' = last
    /\ calls' = 2
    /\ UNCHANGED <<container, courseData, personData>>
    /\ UNCHANGED runVars
    /\ UNCHANGED diskVars
    /\ UNCHANGED mailVars

\* course_container.update(df) on the loaded dataset
CourseUpdateCall ==
    /\ container = "course"
    /\ calls = 0
    /\ \E raw \in CourseSnapshots : \E cols \in ColSets(CourseCols) :
        LET u == CourseUpdateFrame(courseData, raw, cols)
        IN /\ CourseBlank(raw, cols)
           /\ courseData' = u.data
           /\ last' = u
    /\ first' = last
    /\ calls' = 1
    /\ UNCHANGED <<container, regData, personData>>
    /\ UNCHANGED runVars
    /\ UNCHANGED diskVars
    /\ UNCHANGED mailVars

CourseUpdateAgain ==
    /\ container = "course"
    /\ calls = 1
    /\ last.error = "none"
    /\ LET u == CourseUpdateFrame(courseData, last.raw, last.cols)
       IN /\ courseData' = u.data
          /\ last' = u
    /\ first' = last
    /\ calls' = 2
    /\ UNCHANGED <<container, regData, personData>>
    /\ UNCHANGED runVars
    /\ UNCHANGED diskVars
    /\ UNCHANGED mailVars

\* person_container.update(df, keep_persons=keep) on the loaded dataset
PersonUpdateCall ==
    /\ container = "person"
    /\ calls = 0
    /\ \E raw \in PersonSnapshots : \E keep \in BOOLEAN : \E cols \in ColSets(PersonCols) :
        LET u == PersonUpdateFrame(personData, raw, cols, keep)
        IN /\ PersonBlank(raw, cols)
           /\ personData' = u.data
           /\ last' = u
    /\ first' = last
    /\ calls' = 1
    /\ UNCHANGED <<container, regData, courseData>>
    /\ UNCHANGED runVars
    /\ UNCHANGED diskVars
    /\ UNCHANGED mailVars

Next ==
    \/ RegUpdateCall
    \/ RegUpdateAgain
    \/ CourseUpdateCall
    \/ CourseUpdateAgain
    \/ PersonUpdateCall

Spec == Init /\ [][Next]_vars

\* ------------------------------------------------------------------------
\* The scheduled runs of main(), registration side
\* ------------------------------------------------------------------------
\* the files an earlier run can have left: none, or one saved registration
SavedFiles ==
    {s \in StoredDatasets : Len(s) <= MaxSaved /\ \A i \in DOMAIN s : s[i].status = "unchanged"}

\* before the first run of the behaviour
InitRun ==
    /\ container = "run"
    /\ regData = <<>>
    /\ courseData = RunCourses
    /\ personData = <<>>
    /\ last = NoUpdate
    /\ first = NoUpdate
    /\ calls = 0
    /\ pc = "start"
    /\ run = 1
    /\ file \in SavedFiles
    /\ mails = <<>>
    /\ prevMails = <<>>
    /\ prevRaw = <<>>
    /\ disk = NoDisk
    /\ day = 1
    /\ atStart = NoDisk
    /\ report = NoReport
    /\ mailer = NoMailer

\* container.load()
RunLoad ==
    /\ pc = "start"
    /\ run <= MaxRuns
    /\ regData' = RegLoad(file)
    /\ pc' = "loaded"
    /\ UNCHANGED <<container, courseData, personData, last, first, calls,
                   run, file, mails, prevMails, prevRaw>>
    /\ UNCHANGED diskVars
    /\ UNCHANGED mailVars

\* registration_container.update() with the portal's snapshot
RunUpdate ==
    /\ pc = "loaded"
    /\ \E raw \in RegSnapshots :
        LET u == RegUpdateFrame(regData, raw, RegCols)
        IN /\ regData' = u.data
           /\ last' = u
    /\ first' = last
    /\ pc' = "updated"
    /\ UNCHANGED <<container, courseData, personData, calls,
                   run, file, mails, prevMails, prevRaw>>
    /\ UNCHANGED diskVars
    /\ UNCHANGED mailVars

\* registration_container.insert_course_id(course_container.data)
RunInsertCourseId ==
    /\ pc = "updated"
    /\ regData' = InsertCourseId(regData, courseData)
    /\ pc' = "inserted"
    /\ UNCHANGED <<container, courseData, personData, last, first, calls,
                   run, file, mails, prevMails, prevRaw>>
    /\ UNCHANGED diskVars
    /\ UNCHANGED mailVars

\* manage_changed_registrations(...)
RunManage ==
    /\ pc = "inserted"
    /\ regData' = Manage(regData).data
    /\ mails' = Manage(regData).mails
    /\ pc' = "managed"
    /\ UNCHANGED <<container, courseData, personData, last, first, calls,
                   run, file, prevMails, prevRaw>>
    /\ UNCHANGED diskVars
    /\ UNCHANGED mailVars

\* disable(): every container is saved, the process exits
RunSave ==
    /\ pc = "managed"
    /\ file' = RegSaveFile(file, regData)
    /\ regData' = <<>>
    /\ prevMails' = mails
    /\ mails' = <<>>
    /\ prevRaw' = last.raw
    /\ run' = run + 1
    /\ pc' = "start"
    /\ UNCHANGED <<container, courseData, personData, last, first, calls>>
    /\ UNCHANGED diskVars
    /\ UNCHANGED mailVars

NextRun ==
    \/ RunLoad
    \/ RunUpdate
    \/ RunInsertCourseId
    \/ RunManage
    \/ RunSave

SpecRun == InitRun /\ [][NextRun]_vars

\* course tables of the two courses, each carrying either label: one course
\* per label, both courses with one label
JoinCourses ==
    {<<CourseRow("c1", a, "d1", "0", "0"), CourseRow("c2", b, "d1", "0", "0")>> :
        a \in {"L1", "L2"}, b \in {"L1", "L2"}}

\* one run over any of the course tables
InitJoin ==
    /\ container = "run"
    /\ regData = <<>>
    /\ courseData \in JoinCourses
    /\ personData = <<>>
    /\ last = NoUpdate
    /\ first = NoUpdate
    /\ calls = 0
    /\ pc = "start"
    /\ run = MaxRuns
    /\ file \in SavedFiles
    /\ mails = <<>>
    /\ prevMails = <<>>
    /\ prevRaw = <<>>
    /\ disk = NoDisk
    /\ day = 1
    /\ atStart = NoDisk
    /\ report = NoReport
    /\ mailer = NoMailer

SpecJoin == InitJoin /\ [][NextRun]_vars

\* ------------------------------------------------------------------------
\* manage_pending_courses
\* ------------------------------------------------------------------------
\* reminder counts, lowest first
CountOrder == <<"0", "1", "2", "3">>

\* int(course_select[..._reminder_count].iloc[0])
CountValue(c) == Rank(CountOrder, c) - 1

\* a reminder count one higher
IncCount(c) == CountOrder[Min(Rank(CountOrder, c) + 1, Len(CountOrder))]

\* len(management_reminder_days_descending), len(player_reminder_days_descending)
ManagementReminderDays == 2
PlayerReminderDays == 1

\* variant: a reminder is sent however many were sent before
ReminderLeftAlways(c, n) == TRUE

\* idx < len(..._reminder_days_descending)
ReminderLeft(c, n) == CountValue(c) < n

\* the courses manage_pending_courses loops over: upcoming courses with a
\* registration whose participation is pending
PendingCourses(D, upcoming) ==
    {c \in upcoming : \E i \in DOMAIN D : D[i].cid = c /\ D[i].part = "pending"}

\* course_container.data after manage_pending_courses: dueM and dueP are
\* the courses whose management and player reminder is due today
ManagePendingCourses(courses, D, upcoming, dueM, dueP) ==
    [j \in DOMAIN courses |->
        LET c == courses[j].id
            sel == c \in PendingCourses(D, upcoming)
        IN [courses[j] EXCEPT
                !.mrc = IF sel /\ ReminderLeft(@, ManagementReminderDays) /\ c \in dueM
                        THEN IncCount(@) ELSE @,
                !.prc = IF sel /\ ReminderLeft(@, PlayerReminderDays) /\ c \in dueP
                        THEN IncCount(@) ELSE @]]

\* the portal's snapshots, with failed participations
FailedSnapshots ==
    {[i \in DOMAIN raw |-> IF raw[i].part = "passed" THEN [raw[i] EXCEPT !.part = "failed"] ELSE raw[i]] :
        raw \in RegSnapshots}

\* registration_container.update() with the portal's snapshot
NotifyUpdate ==
    /\ pc = "loaded"
    /\ \E raw \in RegSnapshots \cup FailedSnapshots :
        LET u == RegUpdateFrame(regData, raw, RegCols)
        IN /\ regData' = u.data
           /\ last' = u
    /\ first' = last
    /\ pc' = "updated"
    /\ UNCHANGED <<container, courseData, personData, calls,
                   run, file, mails, prevMails, prevRaw>>
    /\ UNCHANGED diskVars
    /\ UNCHANGED mailVars

\* manage_pending_courses(...)
NotifyManagePending ==
    /\ pc = "managed"
    /\ \E upcoming \in SUBSET Range(CourseIds) :
       \E dueM \in SUBSET upcoming : \E dueP \in SUBSET upcoming :
        courseData' = ManagePendingCourses(courseData, regData, upcoming, dueM, dueP)
    /\ pc' = "reminded"
    /\ UNCHANGED <<container, regData, personData, last, first, calls,
                   run, file, mails, prevMails, prevRaw>>
    /\ UNCHANGED diskVars
    /\ UNCHANGED mailVars

NextNotify ==
    \/ RunLoad
    \/ NotifyUpdate
    \/ RunInsertCourseId
    \/ RunManage
    \/ NotifyManagePending

\* one run up to the end of the notifications
SpecNotify == InitJoin /\ [][NextNotify]_vars

\* ------------------------------------------------------------------------
\* The data files of a run: DataContainer.load, DataContainer.save, disable
\* ------------------------------------------------------------------------
\* a data csv file: the date in its name and the run that wrote it (0: a
\* run before the first)
DataFile(d, by) == [name |-> d, by |-> by]

\* load(keep_n=2)
KeepN == 2

\* variant: the oldest files are kept
KeepOldest(files) ==
    IF Len(files) <= KeepN THEN files ELSE SubSeq(files, 1, KeepN)

\* files[-keep_n:] for a positive keep_n
KeepLatestN(files, n) ==
    IF Len(files) <= n THEN files ELSE SubSeq(files, Len(files) - n + 1, Len(files))

\* load: every file but the keep_n latest by modification time is deleted
KeepLatest(files) == KeepLatestN(files, KeepN)

\* what load did: the files it found, the files it kept, the file it read
LoadRecord(e, files) ==
    [entity |-> e, before |-> files, kept |-> KeepLatest(files),
     read |-> IF files = <<>> THEN <<>>
              ELSE <<KeepLatest(files)[Len(KeepLatest(files))]>>]

\* variant: to_csv under a name of its own
SaveFileAppend(files, d, by) == Append(files, DataFile(d, by))

\* save: to_csv under the name of today; a file of that name is overwritten
\* and is then the latest
SaveFile(files, d, by) ==
    LET Other(f) == f.name # d
    IN Append(SelectSeq(files, Other), DataFile(d, by))

\* main() and disable(), step by step
PersistOrder ==
    <<"load_course", "load_person", "load_registration",
      "update", "insert_course_id", "update_membership",
      "manage_changed_registrations", "manage_new_courses", "manage_pending_courses",
      "report", "save_course", "save_person", "save_registration", "save_config">>

LoadSteps == {"load_course", "load_person", "load_registration"}
SaveSteps == {"save_course", "save_person", "save_registration"}

Pos(st) == CHOOSE i \in DOMAIN PersistOrder : PersistOrder[i] = st

After(st) ==
    IF Pos(st) = Len(PersistOrder) THEN "exited" ELSE PersistOrder[Pos(st) + 1]

\* the steps up to the first save: none of them has saved yet
BeforeSave == {st \in Range(PersistOrder) : Pos(st) <= Pos("save_course")}

EntityOf(st) ==
    IF st \in {"load_course", "save_course"} THEN "course"
    ELSE IF st \in {"load_person", "save_person"} THEN "person"
    ELSE "registration"

\* the directories before the first run: empty, one file, more than keep_n
PersistInitFiles ==
    {<<>>, <<DataFile(1, 0)>>, <<DataFile(-2, 0), DataFile(-1, 0), DataFile(0, 0)>>}

InitPersist ==
    /\ container = "persist"
    /\ regData = <<>>
    /\ courseData = <<>>
    /\ personData = <<>>
    /\ last = NoUpdate
    /\ first = NoUpdate
    /\ calls = 0
    /\ pc = "start"
    /\ run = 1
    /\ file = <<>>
    /\ mails = <<>>
    /\ prevMails = <<>>
    /\ prevRaw = <<>>
    /\ disk \in [Range(Entities) -> PersistInitFiles]
    /\ day = 1
    /\ atStart = NoDisk
    /\ report = NoReport
    /\ mailer = NoMailer

\* the scheduler starts main(), the same day or a day later
PersistStart ==
    /\ container = "persist"
    /\ pc \in {"start", "exited", "crashed", "crashed_before_save"}
    /\ run <= MaxRuns
    /\ \E d \in {day, day + 1} : day' = d
    /\ atStart' = disk
    /\ pc' = PersistOrder[1]
    /\ UNCHANGED updVars
    /\ UNCHANGED <<run, file, mails, prevMails, prevRaw, disk>>
    /\ UNCHANGED mailVars

\* container.load()
PersistLoad ==
    /\ container = "persist"
    /\ pc \in LoadSteps
    /\ disk' = [disk EXCEPT ![EntityOf(pc)] = KeepLatest(@)]
    /\ last' = LoadRecord(EntityOf(pc), disk[EntityOf(pc)])
    /\ pc' = After(pc)
    /\ UNCHANGED <<container, regData, courseData, personData, first, calls>>
    /\ UNCHANGED <<run, file, mails, prevMails, prevRaw, day, atStart>>
    /\ UNCHANGED mailVars

\* a step of main() or disable() that writes no data file; with the
\* trigger only_update_data main() goes from the updates to disable()
PersistWork ==
    /\ container = "persist"
    /\ pc \in Range(PersistOrder) \ (LoadSteps \cup SaveSteps)
    /\ pc' \in (IF pc = "update_membership" THEN {After(pc), "report"} ELSE {After(pc)})
    /\ run' = IF pc' = "exited" THEN run + 1 ELSE run
    /\ UNCHANGED updVars
    /\ UNCHANGED <<file, mails, prevMails, prevRaw>>
    /\ UNCHANGED diskVars
    /\ UNCHANGED mailVars

\* container.save(): an empty dataset is not written
PersistSave ==
    /\ container = "persist"
    /\ pc \in SaveSteps
    /\ \E nonempty \in BOOLEAN :
        disk' = IF nonempty THEN [disk EXCEPT ![EntityOf(pc)] = SaveFile(@, day, run)] ELSE disk
    /\ pc' = After(pc)
    /\ UNCHANGED updVars
    /\ UNCHANGED <<run, file, mails, prevMails, prevRaw, day, atStart>>
    /\ UNCHANGED mailVars

\* an exception ends the process before the step at pc has acted
PersistCrash ==
    /\ container = "persist"
    /\ pc \in Range(PersistOrder)
    /\ pc' = IF pc \in BeforeSave THEN "crashed_before_save" ELSE "crashed"
    /\ run' = run + 1
    /\ UNCHANGED updVars
    /\ UNCHANGED <<file, mails, prevMails, prevRaw>>
    /\ UNCHANGED diskVars
    /\ UNCHANGED mailVars

NextPersist ==
    \/ PersistStart
    \/ PersistLoad
    \/ PersistWork
    \/ PersistSave
    \/ PersistCrash

SpecPersist == InitPersist /\ [][NextPersist]_vars

\* ------------------------------------------------------------------------
\* DataContainer.validate_data, cell by cell
\* ------------------------------------------------------------------------
\* a cell is a Python object: its type and its text
Cell(t, v) == [t |-> t, v |-> v]
NaN == Cell("null", "")

\* cells of a column declared int (help_count)
IntCells == {Cell("str", "3"), Cell("str", "x"), Cell("num", "3"), NaN}
\* cells of a column declared datetime (license_since)
DateCells == {Cell("str", "2024-01-01"), Cell("str", "soon"), Cell("date", "2024-01-01"), NaN}
\* cells of a column declared bool (wants_higher_license)
BoolCells ==
    {Cell("bool", "True"), Cell("bool", "False"), Cell("str", "True"),
     Cell("str", "true"), Cell("str", "False"), NaN}
\* cells of a column declared str (club)
StrCells == {Cell("str", "a"), Cell("str", ""), NaN}

\* pd.to_numeric(errors="coerce")
ToNumeric(c) ==
    IF c.t = "num" THEN c
    ELSE IF c.t = "str" /\ c.v = "3" THEN Cell("num", "3")
    ELSE NaN

\* pd.to_datetime(format="ISO8601"): errors="raise" is the default
ToDatetime(c) ==
    IF c.t \in {"date", "null"} THEN c
    ELSE IF c.t = "str" /\ c.v = "2024-01-01" THEN Cell("date", "2024-01-01")
    ELSE Cell("error", "ValueError")

\* True if x in ["True", "true"] else False: the boolean True equals
\* neither string
ToBool(c) ==
    IF c.t = "str" /\ c.v \in {"True", "true"}
    THEN Cell("bool", "True") ELSE Cell("bool", "False")

\* astype(str), then replace("nan", nan) and replace("", nan)
ToStr(c) == IF c.t = "null" \/ c.v = "" \/ c.v = "nan" THEN NaN ELSE Cell("str", c.v)

ValidRow(help, since, wants, club) ==
    [help |-> help, since |-> since, wants |-> wants, club |-> club]

\* validate_data(df): the validated frame, or the exception of the first
\* cell that raises
ValidateData(rows) ==
    LET bad == {i \in DOMAIN rows : ToDatetime(rows[i].since).t = "error"}
    IN [before |-> rows,
        error |-> IF bad # {} THEN "ValueError" ELSE "none",
        data |-> IF bad # {} THEN <<>>
                 ELSE [i \in DOMAIN rows |->
                        ValidRow(ToNumeric(rows[i].help), ToDatetime(rows[i].since),
                                 ToBool(rows[i].wants), ToStr(rows[i].club))]]

\* the frames validate_data is given: one or two rows
MaxValidRows == 2
ValidFrames ==
    UNION {[1..n -> {ValidRow(h, d, w, c) :
                        h \in IntCells, d \in DateCells, w \in BoolCells, c \in StrCells}] :
            n \in 1..MaxValidRows}

InitValidate ==
    /\ container = "validate"
    /\ regData = <<>>
    /\ courseData = <<>>
    /\ personData \in ValidFrames
    /\ last = NoUpdate
    /\ first = NoUpdate
    /\ calls = 0
    /\ pc = "start"
    /\ run = 1
    /\ file = <<>>
    /\ mails = <<>>
    /\ prevMails = <<>>
    /\ prevRaw = <<>>
    /\ disk = NoDisk
    /\ day = 1
    /\ atStart = NoDisk
    /\ report = NoReport
    /\ mailer = NoMailer

\* df = self.validate_data(df) in load and update; what it returned is
\* validated again by the next load or update
ValidateCall ==
    /\ container = "validate"
    /\ calls < 2
    /\ last.error = "none"
    /\ last' = ValidateData(personData)
    /\ personData' = IF last'.error = "none" THEN last'.data ELSE personData
    /\ first' = last
    /\ calls' = calls + 1
    /\ UNCHANGED <<container, regData, courseData>>
    /\ UNCHANGED runVars
    /\ UNCHANGED diskVars
    /\ UNCHANGED mailVars

NextValidate == ValidateCall

SpecValidate == InitValidate /\ [][NextValidate]_vars

\* ------------------------------------------------------------------------
\* CourseContainer.assert_deep_data
\* ------------------------------------------------------------------------
\* _DEEP_DATA_COUNT
DeepDataCount == 8

\* a stored course: how many of its eight deep fields are null, and how
\* many of its other columns
DeepRow(id, deepNull, otherNull) == [id |-> id, deepNull |-> deepNull, otherNull |-> otherNull]

DeepNullValues == {0, 7, 8}
OtherNullValues == {0, 1}

DeepStoredRows(id) == {DeepRow(id, d, o) : d \in DeepNullValues, o \in OtherNullValues}

DeepDatasets ==
    TablesById(CourseIds, [i \in DOMAIN CourseIds |-> DeepStoredRows(CourseIds[i])])

\* selected_courses.isna().sum(axis=1): the nulls of the whole row
NullCount(r) == r.deepNull + r.otherNull

\* the ids assert_deep_data passes to get_deep_course_info
DeepFetched(D, lids) ==
    {D[i].id : i \in {j \in DOMAIN D : D[j].id \in lids /\ NullCount(D[j]) >= DeepDataCount}}

\* assert_deep_data(lids): update with the deep data of the fetched
\* courses; filled tells whether the portal holds the deep fields (a null
\* overwrites nothing)
AssertDeepData(D, lids, filled) ==
    LET f == DeepFetched(D, lids)
    IN [before |-> D, lids |-> lids, fetched |-> f, error |-> "none",
        data |-> [i \in DOMAIN D |->
                    IF D[i].id \in f /\ filled THEN [D[i] EXCEPT !.deepNull = 0] ELSE D[i]]]

InitDeep ==
    /\ container = "deep"
    /\ regData = <<>>
    /\ courseData \in DeepDatasets
    /\ personData = <<>>
    /\ last = NoUpdate
    /\ first = NoUpdate
    /\ calls = 0
    /\ pc = "start"
    /\ run = 1
    /\ file = <<>>
    /\ mails = <<>>
    /\ prevMails = <<>>
    /\ prevRaw = <<>>
    /\ disk = NoDisk
    /\ day = 1
    /\ atStart = NoDisk
    /\ report = NoReport
    /\ mailer = NoMailer

\* course_container.assert_deep_data(list(...["course_id"]))
AssertDeepDataCall ==
    /\ container = "deep"
    /\ calls = 0
    /\ \E lids \in SUBSET Range(CourseIds) : \E filled \in BOOLEAN :
        LET u == AssertDeepData(courseData, lids, filled)
        IN /\ courseData' = u.data
           /\ last' = u
    /\ calls' = 1
    /\ UNCHANGED <<container, regData, personData, first>>
    /\ UNCHANGED runVars
    /\ UNCHANGED diskVars
    /\ UNCHANGED mailVars

NextDeep == AssertDeepDataCall

SpecDeep == InitDeep /\ [][NextDeep]_vars

\* ------------------------------------------------------------------------
\* PersonContainer.update_membership
\* ------------------------------------------------------------------------
\* a date is <<year, month, day>>, NaT the empty tuple
NaT == <<>>
ThisYear == 2024

DateNum(d) == d[1] * 10000 + d[2] * 100 + d[3]

\* date.today(): the first and the last day of each half of the year
TodayValues ==
    {<<ThisYear, 1, 1>>, <<ThisYear, 6, 30>>, <<ThisYear, 7, 1>>, <<ThisYear, 12, 31>>}

CurrentTimeframeEnd(today) ==
    IF today[2] <= 6 THEN <<today[1], 7, 31>> ELSE <<today[1] + 1, 1, 31>>

PreviousTimeframeEnd(today) ==
    IF today[2] <= 6 THEN <<today[1] - 1, 12, 31>> ELSE <<today[1], 6, 30>>

\* club_membership_expire values around the ends of the timeframes
ExpireValues ==
    {NaT, <<ThisYear - 1, 12, 31>>, <<ThisYear, 1, 1>>, <<ThisYear, 6, 30>>,
     <<ThisYear, 7, 1>>, <<ThisYear + 1, 1, 31>>}

MemberRow(p, e) == [person |-> p, expire |-> e]

\* the loaded persons: one or two persons, one row each
MemberDatasets ==
    {<<MemberRow(PersonIds[1], e)>> : e \in ExpireValues}
    \cup {<<MemberRow(PersonIds[2], e)>> : e \in ExpireValues}
    \cup {<<MemberRow(PersonIds[1], e), MemberRow(PersonIds[2], f)>> :
            e \in ExpireValues, f \in ExpireValues}

\* the club's member list: up to two rows, a person may be listed twice
MaxListed == 2
ListExpireValues == {NaT, <<ThisYear, 6, 30>>, <<ThisYear + 1, 1, 31>>}
MemberLists ==
    UNION {[1..n -> {MemberRow(p, e) : p \in Range(PersonIds), e \in ListExpireValues}] :
            n \in 0..MaxListed}

Listed(df, p) == {i \in DOMAIN df : df[i].person = p}

\* the first of the positions
FirstIn(S) == CHOOSE i \in S : \A j \in S : i <= j

\* row["club_membership_expire"] > previous_timeframe_end: the column is
\* datetime64 (validate_data), the row value a pandas Timestamp, and
\* previous_timeframe_end a datetime.date; pandas 2, which
\* to_datetime(format="ISO8601") in validate_data needs, raises TypeError
\* for this comparison instead of comparing
TimestampGtDate(ts, d) == "TypeError"

\* update_club_membership_expire(row, df, ...): the value returned, or the
\* exception raised
UpdateClubMembershipExpire(row, df, cur, prev) ==
    IF Listed(df, row.person) # {}
    THEN LET e == df[FirstIn(Listed(df, row.person))].expire      \* .iloc[0]
         IN [error |-> "none", val |-> IF e = NaT THEN cur ELSE e]
    ELSE IF row.expire = NaT
         THEN [error |-> "none", val |-> prev]
         ELSE IF TimestampGtDate(row.expire, prev) = "TypeError"
              THEN [error |-> "TypeError", val |-> row.expire]
              ELSE IF TimestampGtDate(row.expire, prev) = "True"
                   THEN [error |-> "none", val |-> prev]
                   ELSE [error |-> "none", val |-> row.expire]

\* update_membership(df): the column is assigned when apply has returned
UpdateMembership(D, df, today) ==
    LET cur == CurrentTimeframeEnd(today)
        prev == PreviousTimeframeEnd(today)
        res == [i \in DOMAIN D |-> UpdateClubMembershipExpire(D[i], df, cur, prev)]
        err == {i \in DOMAIN D : res[i].error # "none"}
    IN [before |-> D, list |-> df, today |-> today,
        data |-> IF err # {} THEN D ELSE [i \in DOMAIN D |-> MemberRow(D[i].person, res[i].val)],
        error |-> IF err # {} THEN res[FirstIn(err)].error ELSE "none"]

InitMember ==
    /\ container = "member"
    /\ regData = <<>>
    /\ courseData = <<>>
    /\ personData \in MemberDatasets
    /\ last = NoUpdate
    /\ first = NoUpdate
    /\ calls = 0
    /\ pc = "start"
    /\ run = 1
    /\ file = <<>>
    /\ mails = <<>>
    /\ prevMails = <<>>
    /\ prevRaw = <<>>
    /\ disk = NoDisk
    /\ day = 1
    /\ atStart = NoDisk
    /\ report = NoReport
    /\ mailer = NoMailer

\* person_container.update_membership(club_members[...])
UpdateMembershipCall ==
    /\ container = "member"
    /\ calls = 0
    /\ \E df \in MemberLists : \E today \in TodayValues :
        LET u == UpdateMembership(personData, df, today)
        IN /\ personData' = u.data
           /\ last' = u
    /\ calls' = 1
    /\ UNCHANGED <<container, regData, courseData, first>>
    /\ UNCHANGED runVars
    /\ UNCHANGED diskVars
    /\ UNCHANGED mailVars

NextMember == UpdateMembershipCall

SpecMember == InitMember /\ [][NextMember]_vars


\* ------------------------------------------------------------------------
\* The reminder counts over the scheduled runs: course_container.load,
\* update, manage_pending_courses, save. file is the latest course file.
\* ------------------------------------------------------------------------
RemindStoredRows(id) ==
    {CourseRow(id, "L1", "d1", m, p) : m \in {"0", "1", "2"}, p \in {"0", "1"}}

\* the course files an earlier run left
RemindStored ==
    TablesById(CourseIds, [i \in DOMAIN CourseIds |-> RemindStoredRows(CourseIds[i])])

\* the portal's course lists of these runs
RemindSnapshots ==
    {S \in CourseSnapshots : \A i \in DOMAIN S : S[i].label = "L1" /\ S[i].regEnd = "d1"}

\* the registrations of the runs, joined with their course
RemindRegistrations ==
    LET r(n) == StoredRow(RegKeys[n], "approved", "pending", "confirmed", CourseIds[n], "unchanged")
    IN {<<>>, <<r(1)>>, <<r(2)>>, <<r(1), r(2)>>}

\* DataContainer.load of the course file: fillna(defaults)
CourseLoad(f) == [i \in DOMAIN f |-> CourseFillDefaults(f[i])]

\* CourseContainer.save: rows sorted by registration_end, an empty dataset
\* writes no file
CourseSaveFile(f, D) ==
    IF Len(D) = 0 THEN f
    ELSE SortByRank(D, [i \in DOMAIN D |-> Rank(DateOrder, D[i].regEnd)])

InitRemind ==
    /\ container = "remind"
    /\ regData \in RemindRegistrations
    /\ courseData = <<>>
    /\ personData = <<>>
    /\ last = NoUpdate
    /\ first = NoUpdate
    /\ calls = 0
    /\ pc = "start"
    /\ run = 1
    /\ file \in RemindStored
    /\ mails = <<>>
    /\ prevMails = <<>>
    /\ prevRaw = <<>>
    /\ disk = NoDisk
    /\ day = 1
    /\ atStart = <<>>
    /\ report = NoReport
    /\ mailer = NoMailer

\* course_container.load()
RemindLoad ==
    /\ pc = "start"
    /\ run <= MaxRuns
    /\ courseData' = CourseLoad(file)
    /\ atStart' = CourseLoad(file)
    /\ pc' = "loaded"
    /\ UNCHANGED <<container, regData, personData, last, first, calls,
                   run, file, mails, prevMails, prevRaw, disk, day>>
    /\ UNCHANGED mailVars

\* course_container.update()
RemindUpdate ==
    /\ pc = "loaded"
    /\ \E raw \in RemindSnapshots :
        LET u == CourseUpdateFrame(courseData, raw, CourseCols)
        IN /\ courseData' = u.data
           /\ last' = u
    /\ pc' = "updated"
    /\ UNCHANGED <<container, regData, personData, first, calls,
                   run, file, mails, prevMails, prevRaw>>
    /\ UNCHANGED diskVars
    /\ UNCHANGED mailVars

\* manage_pending_courses(...)
RemindManagePending ==
    /\ pc = "updated"
    /\ \E upcoming \in SUBSET Range(CourseIds) :
       \E dueM \in SUBSET upcoming : \E dueP \in SUBSET upcoming :
          courseData' = ManagePendingCourses(courseData, regData, upcoming, dueM, dueP)
    /\ first' = [NoUpdate EXCEPT !.data = courseData]
    /\ pc' = "managed"
    /\ UNCHANGED <<container, regData, personData, last, calls,
                   run, file, mails, prevMails, prevRaw>>
    /\ UNCHANGED diskVars
    /\ UNCHANGED mailVars

\* course_container.save()
RemindSave ==
    /\ pc = "managed"
    /\ file' = CourseSaveFile(file, courseData)
    /\ courseData' = <<>>
    /\ run' = run + 1
    /\ pc' = "start"
    /\ UNCHANGED <<container, regData, personData, last, first, calls,
                   mails, prevMails, prevRaw>>
    /\ UNCHANGED diskVars
    /\ UNCHANGED mailVars

NextRemind ==
    \/ RemindLoad
    \/ RemindUpdate
    \/ RemindManagePending
    \/ RemindSave

SpecRemind == InitRemind /\ [][NextRemind]_vars

\* ------------------------------------------------------------------------
\* ManagementReport: the additions and the message built from them
\* ------------------------------------------------------------------------
\* ManagementReport.has_content()
HasContent(rep) ==
    rep.new_courses # 0 \/ rep.general_info # 0 \/ rep.to_do # 0 \/ rep.course_reminder # 0

\* ManagementReport.add_to_do(to_do)
AddToDo(rep) == [rep EXCEPT !.to_do = @ + 1]

\* ManagementReport.add_general_info(info)
AddGeneralInfo(rep) == [rep EXCEPT !.general_info = @ + 1]

\* ManagementReport.add_new_courses(courses, persons), n courses
AddNewCourses(rep, n) ==
    IF n > 0
    THEN [(IF rep.new_courses = 0 THEN AddToDo(rep) ELSE rep) EXCEPT !.new_courses = @ + 1]
    ELSE rep

\* ManagementReport.add_course_reminder(courses, registrations), nc
\* courses and nr registrations
AddCourseReminder(rep, nc, nr) ==
    IF nc + nr > 0
    THEN [(IF rep.course_reminder = 0 THEN AddToDo(rep) ELSE rep) EXCEPT !.course_reminder = @ + 1]
    ELSE rep

\* ManagementReport._add_registration(registrations, reason)
AddRegistration(rep, reason) == [rep EXCEPT !.registrations = @ \cup {reason}]

\* ManagementReport.add_registrations(registrations, reason), n rows
AddRegistrations(rep, n, reason) ==
    IF n = 0 THEN rep
    ELSE IF reason \in {"BUG", "MISSING_DATA", "CORRECTED_MISSING_DATA", "NOT_IN_CLUB"}
         THEN AddRegistration(AddToDo(rep), reason)
    ELSE IF reason \in {"MISSED_CONFIRMED", "FAILED"}
         THEN AddRegistration(rep, reason)
    ELSE IF reason \in {"REMOVED", "SUCCESS", "CANCELLED", "CONFIRMATION_CONFIRMED"}
         THEN AddGeneralInfo(rep)
    ELSE AddRegistration(AddGeneralInfo(rep), reason)

\* ManagementReport.get_html_message(): the sections of the message
GetHtmlMessage(rep) ==
    IF ~HasContent(rep) THEN None
    ELSE [to_do |-> rep.to_do, general_info |-> rep.general_info,
          course_reminder |-> rep.course_reminder,
          registrations |-> rep.registrations, new_courses |-> rep.new_courses]

\* ------------------------------------------------------------------------
\* Mailer: the mails handed to smtp.sendmail, as the envelope recipient
\* rcpt, the To header and the template
\* ------------------------------------------------------------------------
MaxSends == 2       \* send operations of a run
MaxMailRows == 1    \* rows of the table a send operation gets

\* person_mail of a row
PersonMails == <<"p1@mail", ManagementReportMail, NULL>>

\* the send operations and the template each passes on
SendOps ==
    <<"send_course_success", "send_course_fail", "send_course_cancellation",
      "send_course_missed", "send_course_confirmation_request", "send_course_confirmed",
      "send_course_reminder", "send_ref_request">>

TemplateKey(op) ==
    CASE op = "send_course_success" -> "course_success"
      [] op = "send_course_fail" -> "course_failed"
      [] op = "send_course_cancellation" -> "course_cancelled"
      [] op = "send_course_missed" -> "course_missed"
      [] op = "send_course_confirmation_request" -> "course_ask_confirmation"
      [] op = "send_course_confirmed" -> "course_confirmed"
      [] op = "send_course_reminder" -> "course_reminder"
      [] op = "send_ref_request" -> "ref_request"

\* variant: the recipient stays as given
SendMailAsGiven(m, mail_to, to, template) ==
    [rcpt |-> mail_to, to |-> to, template |-> template]

\* Mailer._send_mail(mail_to, msg_str): the mail smtp.sendmail gets
SendMail(m, mail_to, to, template) ==
    [rcpt |-> IF m.mails_only_to_management /\ mail_to # m.management_report_mail
              THEN m.management_report_mail ELSE mail_to,
     to |-> to, template |-> template]

\* Mailer._send_mail_from_template(key, data): one mail per row; a row
\* without person_mail makes msg.as_string() raise, before _send_mail
SendMailFromTemplate(m, key, data) ==
    LET bad == {i \in DOMAIN data : data[i] = NULL}
        n == IF bad = {} THEN Len(data) ELSE FirstIn(bad) - 1
    IN [mails |-> [i \in 1..n |-> SendMail(m, data[i], data[i], key)],
        error |-> IF bad = {} THEN "none" ELSE "AttributeError"]

\* Mailer.send_management_report(html_report)
SendManagementReport(m, html) ==
    IF html = None THEN <<>>
    ELSE <<SendMail(m, m.management_report_mail, m.management_report_mail, "management_report")>>

\* the person_mail columns of the tables a send operation gets
MailTables == UNION {[1..n -> Range(PersonMails)] : n \in 0..MaxMailRows}

InitMail ==
    /\ container = "mail"
    /\ regData = <<>>
    /\ courseData = <<>>
    /\ personData = <<>>
    /\ last = NoUpdate
    /\ first = NoUpdate
    /\ calls = 0
    /\ pc = "start"
    /\ run = 1
    /\ file = <<>>
    /\ mails = <<>>
    /\ prevMails = <<>>
    /\ prevRaw = <<>>
    /\ disk = NoDisk
    /\ day = 1
    /\ atStart = NoDisk
    /\ report = NoReport
    /\ mailer \in {[NoMailer EXCEPT !.mails_only_to_management = b] : b \in BOOLEAN}

\* Mailer.instance().send_course_...(data), send_ref_request(data)
MailSend ==
    /\ calls < MaxSends
    /\ \E op \in Range(SendOps) : \E data \in MailTables :
        LET u == SendMailFromTemplate(mailer, TemplateKey(op), data)
        IN /\ mails' = mails \o u.mails
           /\ last' = [NoUpdate EXCEPT !.raw = data, !.error = u.error]
    /\ calls' = calls + 1
    /\ UNCHANGED <<container, regData, courseData, personData, first,
                   pc, run, file, prevMails, prevRaw>>
    /\ UNCHANGED diskVars
    /\ UNCHANGED mailVars

\* Mailer.instance().send_management_report(report)
MailSendManagementReport ==
    /\ calls < MaxSends
    /\ \E html \in {None, GetHtmlMessage(AddToDo(NoReport))} :
        /\ mails' = mails \o SendManagementReport(mailer, html)
        /\ last' = [NoUpdate EXCEPT !.raw = <<html>>]
    /\ calls' = calls + 1
    /\ UNCHANGED <<container, regData, courseData, personData, first,
                   pc, run, file, prevMails, prevRaw>>
    /\ UNCHANGED diskVars
    /\ UNCHANGED mailVars

NextMail ==
    \/ MailSend
    \/ MailSendManagementReport

SpecMail == InitMail /\ [][NextMail]_vars

\* ------------------------------------------------------------------------
\* ManagementReport over a run: the additions, then disable(). first holds
\* the reasons add_registrations got rows for, last what disable() did.
\* ------------------------------------------------------------------------
MaxAdds == 3        \* additions to the report of a run
MaxReportRows == 1  \* rows of a table given to the report

\* disable(): the report mailed and written to last_management_report.txt
Disable(rep, m) ==
    LET html == GetHtmlMessage(rep)
    IN [html |-> html,
        mails |-> SendManagementReport(m, html),
        written |-> IF html = None THEN [text |-> "EMPTY REPORT"] ELSE html]

NoDisable == [html |-> None, mails |-> <<>>, written |-> None]

InitReport ==
    /\ container = "report"
    /\ regData = <<>>
    /\ courseData = <<>>
    /\ personData = <<>>
    /\ last = NoDisable
    /\ first = {}
    /\ calls = 0
    /\ pc = "start"
    /\ run = 1
    /\ file = <<>>
    /\ mails = <<>>
    /\ prevMails = <<>>
    /\ prevRaw = <<>>
    /\ disk = NoDisk
    /\ day = 1
    /\ atStart = NoDisk
    /\ report = NoReport
    /\ mailer = NoMailer

\* management_report.add_registrations(registrations, reason)
ReportAddRegistrations ==
    /\ pc = "start"
    /\ calls < MaxAdds
    /\ \E n \in 0..MaxReportRows : \E reason \in Range(ReportReasons) :
        /\ report' = AddRegistrations(report, n, reason)
        /\ first' = IF n > 0 THEN first \cup {reason} ELSE first
    /\ calls' = calls + 1
    /\ UNCHANGED <<container, regData, courseData, personData, last, mailer>>
    /\ UNCHANGED runVars
    /\ UNCHANGED diskVars

\* add_to_do, add_general_info, add_new_courses, add_course_reminder
ReportAddOther ==
    /\ pc = "start"
    /\ calls < MaxAdds
    /\ \/ report' = AddToDo(report)
       \/ report' = AddGeneralInfo(report)
       \/ \E n \in 0..MaxReportRows : report' = AddNewCourses(report, n)
       \/ \E nc \in 0..MaxReportRows : \E nr \in 0..MaxReportRows :
             report' = AddCourseReminder(report, nc, nr)
    /\ calls' = calls + 1
    /\ UNCHANGED <<container, regData, courseData, personData, last, first, mailer>>
    /\ UNCHANGED runVars
    /\ UNCHANGED diskVars

\* disable(program_path, config, containers)
ReportDisable ==
    /\ pc = "start"
    /\ last' = Disable(report, mailer)
    /\ mails' = mails \o Disable(report, mailer).mails
    /\ pc' = "done"
    /\ UNCHANGED <<container, regData, courseData, personData, first, calls,
                   run, file, prevMails, prevRaw>>
    /\ UNCHANGED diskVars
    /\ UNCHANGED mailVars

NextReport ==
    \/ ReportAddRegistrations
    \/ ReportAddOther
    \/ ReportDisable

SpecReport == InitReport /\ [][NextReport]_vars

\* ------------------------------------------------------------------------
\* PersonContainer.increment_data_value (a table as whether it is given
\* and the keys last_name, first_name, birthday of its rows)
\* ------------------------------------------------------------------------
MaxIncrements == 2  \* increment_data_value calls on the loaded dataset
MaxFailedRows == 2  \* rows of the table of failed registrations

\* failed_higher_license_count + n
AddCount(c, n) == IF c = NULL THEN NULL ELSE CountOrder[Min(Rank(CountOrder, c) + n, Len(CountOrder))]

\* variant: the count rises once per row of the table
IncrementPerRow(D, df) ==
    IF ~df.given \/ df.rows = <<>>
    THEN [before |-> D, df |-> df, error |-> "none", data |-> D]
    ELSE [before |-> D, df |-> df, error |-> "none",
          data |-> [i \in DOMAIN D |->
                      [D[i] EXCEPT !.failed = AddCount(@, Count(df.rows, D[i].person))]]]

\* PersonContainer.increment_data_value(df): data.loc[df.index, ...] raises
\* KeyError for a key the dataset does not hold
IncrementDataValue(D, df) ==
    IF ~df.given \/ df.rows = <<>>
    THEN [before |-> D, df |-> df, error |-> "none", data |-> D]
    ELSE LET keys == Range(df.rows)
             held == {D[i].person : i \in DOMAIN D}
         IN IF ~(keys \subseteq held)
            THEN [before |-> D, df |-> df, error |-> "KeyError", data |-> D]
            ELSE [before |-> D, df |-> df, error |-> "none",
                  data |-> [i \in DOMAIN D |->
                              IF D[i].person \in keys
                              THEN [D[i] EXCEPT !.failed = AddCount(@, 1)]
                              ELSE D[i]]]

\* the tables of failed registrations, None among them
FailedTables ==
    {[given |-> FALSE, rows |-> <<>>]}
        \cup {[given |-> TRUE, rows |-> r] :
                 r \in UNION {[1..n -> Range(PersonIds)] : n \in 0..MaxFailedRows}}

InitIncrement ==
    /\ container = "increment"
    /\ regData = <<>>
    /\ courseData = <<>>
    /\ personData \in PersonStoredDatasets
    /\ last = NoUpdate
    /\ first = NoUpdate
    /\ calls = 0
    /\ pc = "start"
    /\ run = 1
    /\ file = <<>>
    /\ mails = <<>>
    /\ prevMails = <<>>
    /\ prevRaw = <<>>
    /\ disk = NoDisk
    /\ day = 1
    /\ atStart = NoDisk
    /\ report = NoReport
    /\ mailer = NoMailer

\* person_container.increment_data_value(approved_failed)
IncrementDataValueCall ==
    /\ container = "increment"
    /\ calls < MaxIncrements
    /\ \E df \in FailedTables :
        LET u == IncrementDataValue(personData, df)
        IN /\ personData' = u.data
           /\ last' = u
    /\ calls' = calls + 1
    /\ UNCHANGED <<container, regData, courseData, first>>
    /\ UNCHANGED runVars
    /\ UNCHANGED diskVars
    /\ UNCHANGED mailVars

NextIncrement == IncrementDataValueCall

SpecIncrement == InitIncrement /\ [][NextIncrement]_vars

\* ------------------------------------------------------------------------
\* Properties
\* ------------------------------------------------------------------------
\* a dataset with the status column blanked
NoStatus(D) == [i \in DOMAIN D |-> [D[i] EXCEPT !.status = "-"]]

\* no cell of the rows is null on the snapshot's columns
NoNullCell(S) == \A i \in DOMAIN S : S[i].part # NULL /\ S[i].reg # NULL

\* the status a second update with the same snapshot gives a row of the
\* first update's dataset
Second(r) ==
    IF r.status \in {"added", "unchanged"} THEN "unchanged"
    ELSE IF r.status = "removed" THEN "removed"
    ELSE IF r.reg = "cancelled" THEN "unchanged"
    ELSE "changed"

\* C1 as stated, on stored datasets and snapshots without a null cell: the
\* second update with the same snapshot classifies every row unchanged and
\* leaves rows and values as the first update left them (registrations and
\* courses)
C1_IdempotentAsStated ==
    /\ (container = "registration" /\ calls = 2
            /\ NoNullCell(last.snap) /\ NoNullCell(first.before))
        => /\ SameBag(NoStatus(regData), NoStatus(first.data))
           /\ \A i \in DOMAIN regData : regData[i].status = "unchanged"
    /\ (container = "course" /\ calls = 2)
        => (courseData = first.data /\ last.result = <<>>)

\* C1 amended: for a snapshot without a null cell the second update with
\* the same snapshot adds no row and leaves every value other than status;
\* rows the first update classified added or unchanged become unchanged,
\* removed rows stay removed, changed rows stay changed unless cancelled
\* (those become unchanged); a second course update leaves the dataset as
\* it is and reports no new course
C1_Idempotent ==
    /\ (container = "registration" /\ calls = 2 /\ NoNullCell(last.snap))
        => SameBag(regData,
                   [i \in DOMAIN first.data |->
                       [first.data[i] EXCEPT !.status = Second(first.data[i])]])
    /\ (container = "course" /\ calls = 2)
        => (courseData = first.data /\ last.result = <<>>)

C1_Witness ==
    /\ container = "registration"
    /\ calls = 2
    /\ NoNullCell(last.snap)
    /\ \E i \in DOMAIN first.data : \E j \in DOMAIN first.data :
        /\ first.data[i].status = "added"
        /\ [first.data[i] EXCEPT !.status = "unchanged"] \in Range(regData)
        /\ first.data[j].status = "changed"
        /\ first.data[j].reg # "cancelled"
        /\ first.data[j] \in Range(regData)

\* C3: in every update a row matched in the stored dataset and the snapshot
\* keeps the stored value of an updatable column where the snapshot's value
\* is null and takes the snapshot's value where it is not, and that row is
\* in the dataset after the update
Mono(old, new) == IF new = NULL THEN old ELSE new

C3_MonotonicOverwrite ==
    \A i \in DOMAIN last.entries :
        LET e == last.entries[i]
            l == e.left[1]
            r == e.right[1]
        IN (e.left # <<>> /\ e.right # <<>>) =>
            /\ container = "registration" =>
                /\ e.out.reg = Mono(l.reg, r.reg)
                /\ e.out.part = Mono(l.part, r.part)
                /\ e.out \in Range(regData)
            /\ container = "course" =>
                /\ e.out.label = Mono(l.label, r.label)
                /\ e.out.regEnd = Mono(l.regEnd, r.regEnd)
                /\ e.out \in Range(courseData)
            /\ container = "person" =>
                /\ e.out.ltype = Mono(l.ltype, r.ltype)
                /\ e.out.lcat = Mono(l.lcat, r.lcat)
                /\ e.out \in Range(personData)

C3_Witness ==
    /\ container = "course"
    /\ calls = 1
    /\ \E i \in DOMAIN last.entries :
        LET e == last.entries[i]
        IN /\ e.left # <<>> /\ e.right # <<>>
           /\ e.right[1].regEnd = NULL
           /\ e.left[1].regEnd # NULL
           /\ e.right[1].label # NULL
           /\ e.right[1].label # e.left[1].label
           /\ e.out.regEnd = e.left[1].regEnd
           /\ e.out.label = e.right[1].label

\* number of rows whose key is k, keyCol being the key of each row
KeyCount(keyCol, k) == Cardinality({i \in DOMAIN keyCol : keyCol[i] = k})

RegStatuses == {"added", "changed", "unchanged", "removed"}

C4_Registrations ==
    (container = "registration" /\ calls >= 1) =>
        /\ \A k \in Range(RegKeyCol(last.before)) \cup Range(RegKeyCol(last.snap)) :
            KeyCount(RegKeyCol(regData), k) >= 1
        /\ \A i \in DOMAIN regData : regData[i].status \in RegStatuses

C4_Courses ==
    (container = "course" /\ calls >= 1) =>
        \A k \in Range(CourseKeyCol(last.before)) \cup Range(CourseKeyCol(last.snap)) :
            KeyCount(CourseKeyCol(courseData), k) = 1

\* C4 as stated: after update every key of the stored dataset or of the
\* snapshot is in the dataset, exactly once for courses and persons, at
\* least once for registrations, and every registration row carries one of
\* the four statuses
C4_NoLossAsStated ==
    /\ C4_Registrations
    /\ C4_Courses
    /\ (container = "person" /\ calls >= 1) =>
        \A k \in Range(PersonKeyCol(last.before)) \cup Range(PersonKeyCol(last.raw)) :
            KeyCount(PersonKeyCol(personData), k) = 1

\* C4 amended: as stated for registrations and courses; for persons every
\* key of the snapshot is in the dataset exactly once, a stored key that
\* the snapshot does not hold is in it exactly once when keep_persons is
\* true or the snapshot is empty, and is not in it otherwise
C4_NoLoss ==
    /\ C4_Registrations
    /\ C4_Courses
    /\ (container = "person" /\ calls >= 1) =>
        /\ \A k \in Range(PersonKeyCol(last.raw)) : KeyCount(PersonKeyCol(personData), k) = 1
        /\ \A k \in Range(PersonKeyCol(last.before)) \ Range(PersonKeyCol(last.raw)) :
            KeyCount(PersonKeyCol(personData), k)
                = IF last.keep \/ last.raw = <<>> THEN 1 ELSE 0

C4_Witness ==
    /\ container = "person"
    /\ calls = 1
    /\ last.keep
    /\ \E i \in DOMAIN last.entries : \E j \in DOMAIN last.entries :
        /\ last.entries[i].ind = "left_only"
        /\ last.entries[j].ind = "right_only"
        /\ KeyCount(PersonKeyCol(personData), last.entries[i].out.person) = 1
        /\ KeyCount(PersonKeyCol(personData), last.entries[j].out.person) = 1

\* number of rows of s that are identical to v on the snapshot's columns
ProjCount(s, v) == Cardinality({i \in DOMAIN s : Proj(s[i]) = v})

\* the entries the update classified added whose row is v
AddedCount(v) ==
    Cardinality({i \in DOMAIN last.entries :
        last.entries[i].out.status = "added" /\ Proj(last.entries[i].out) = v})

\* C5: a stored cancelled row that the snapshot still lists is not
\* classified added, in the first update and in a second one with the same
\* snapshot: of the snapshot rows identical to it, only those beyond the
\* stored ones are new
C5_CancelledStability ==
    (container = "registration" /\ calls >= 1) =>
        \A i \in DOMAIN last.cancelled :
            LET v == Proj(last.cancelled[i])
            IN ProjCount(last.snap, v) <= ProjCount(last.cancelled, v) => AddedCount(v) = 0

\* C6: for each distinct stored cancelled row value occurring n times the
\* update removes min(n, m) of the m identical snapshot rows before the
\* merge and no other row; one stored cancelled row listed again
\* identically yields exactly one row for the key, with status unchanged
C6_MultisetSubtraction ==
    (container = "registration" /\ calls >= 1) =>
        /\ \A i \in DOMAIN last.cancelled :
            LET v == Proj(last.cancelled[i])
            IN ProjCount(last.remaining, v)
                = ProjCount(last.snap, v) - Min(ProjCount(last.cancelled, v), ProjCount(last.snap, v))
        /\ \A j \in DOMAIN last.snap :
            (\A i \in DOMAIN last.cancelled : Proj(last.cancelled[i]) # last.snap[j])
                => ProjCount(last.remaining, last.snap[j]) = ProjCount(last.snap, last.snap[j])
        /\ (Len(last.before) = 1 /\ Len(last.cancelled) = 1
                /\ last.snap = <<Proj(last.cancelled[1])>>)
            => /\ KeyCount(RegKeyCol(regData), KeyOf(last.cancelled[1])) = 1
               /\ \A r \in Range(regData) : r.status = "unchanged"

\* C7: a row in the stored rows that are not cancelled and in the snapshot
\* is classified changed exactly when its participation_status or
\* registration_status differs between the stored and the incoming value
\* or the stored row carried status changed, and unchanged otherwise
C7_ChangedClassification ==
    (container = "registration" /\ calls >= 1) =>
        \A i \in DOMAIN last.entries :
            LET e == last.entries[i]
                differs == \/ e.left[1].part # e.right[1].part
                           \/ e.left[1].reg # e.right[1].reg
                           \/ e.left[1].status = "changed"
            IN (e.left # <<>> /\ e.right # <<>>) =>
                e.out.status = IF differs THEN "changed" ELSE "unchanged"

C9_CancelledPreserved ==
    (container = "registration" /\ calls >= 1 /\ last.error = "none") =>
        /\ \A i \in DOMAIN last.cancelled :
            LET c == [last.cancelled[i] EXCEPT !.status = "unchanged"]
            IN Count(regData, c)
                = Cardinality({j \in DOMAIN last.cancelled :
                                  [last.cancelled[j] EXCEPT !.status = "unchanged"] = c})
        /\ Len(last.cancelled) = Len(Cancelled(last.before))
        /\ \A c \in Range(Cancelled(last.before)) : c \in Range(last.cancelled)

C9_Witness ==
    /\ container = "registration"
    /\ calls = 1
    /\ \E c \in Range(Cancelled(last.before)) :
        /\ c.status = "changed"
        /\ [c EXCEPT !.status = "unchanged"] \in Range(regData)
        /\ \E s \in Range(last.snap) : KeyOf(s) = KeyOf(c) /\ Proj(c) # s
        /\ \E r \in Range(regData) : KeyOf(r) = KeyOf(c) /\ r.status = "added"

\* the value a new row gets in a defaulted column
Supplied(v, default) == IF v = NULL THEN default ELSE v

\* C10: a row added because its key is only in the snapshot gets the
\* schema default in every defaulted column the snapshot did not supply
\* (persons DK, Halle, 0, 0; courses both reminder counts 0; registrations
\* confirmation_status pending), supplied values are kept, and rows that
\* existed keep their stored values in these columns
C10_DefaultsForNewRows ==
    \A i \in DOMAIN last.entries :
        LET e == last.entries[i]
        IN /\ (container = "person" /\ e.left = <<>>) =>
                /\ e.out.ltype = Supplied(e.right[1].ltype, "DK")
                /\ e.out.lcat = Supplied(e.right[1].lcat, "Halle")
                /\ e.out.help = "0"
                /\ e.out.failed = "0"
           /\ (container = "person" /\ e.left # <<>>) =>
                /\ e.out.help = e.left[1].help
                /\ e.out.failed = e.left[1].failed
           /\ (container = "course" /\ e.left = <<>>) =>
                /\ e.out.mrc = "0"
                /\ e.out.prc = "0"
                /\ e.out.label = e.right[1].label
                /\ e.out.regEnd = e.right[1].regEnd
           /\ (container = "course" /\ e.left # <<>>) =>
                /\ e.out.mrc = e.left[1].mrc
                /\ e.out.prc = e.left[1].prc
           /\ (container = "registration" /\ e.left = <<>>) =>
                /\ e.out.conf = "pending"
                /\ e.out.reg = e.right[1].reg
                /\ e.out.part = e.right[1].part
           /\ (container = "registration" /\ e.left # <<>>) =>
                e.out.conf = e.left[1].conf

\* C2: in a run whose portal snapshot is the one of the run before, a
\* registration that was selected for a player notification in the run
\* before is selected for none, and its rows, if any are left, are
\* classified unchanged
C2_ExactlyOnce ==
    (pc = "managed" /\ run >= 2 /\ last.raw = prevRaw) =>
        \A n \in DOMAIN prevMails :
            /\ \A m \in DOMAIN mails :
                ~(mails[m].label = prevMails[n].label /\ mails[m].person = prevMails[n].person)
            /\ \A i \in DOMAIN regData :
                (regData[i].label = prevMails[n].label /\ regData[i].person = prevMails[n].person)
                    => regData[i].status = "unchanged"

\* a stored course matched by a snapshot row that has a null
\* registration_end and another label
CourseChangeCase(e) ==
    /\ e.left # <<>> /\ e.right # <<>>
    /\ e.right[1].regEnd = NULL
    /\ e.left[1].regEnd # NULL
    /\ e.right[1].label # NULL
    /\ e.right[1].label # e.left[1].label

\* C11 as stated: a stored course whose snapshot row has a null in one
\* column and another non-null value in a second keeps the stored value of
\* the first, adopts the snapshot's value of the second and is classified
\* changed
C11_CourseChangeAsStated ==
    (container = "course" /\ calls >= 1) =>
        \A i \in DOMAIN last.entries :
            LET e == last.entries[i]
            IN CourseChangeCase(e) =>
                /\ e.out.regEnd = e.left[1].regEnd
                /\ e.out.label = e.right[1].label
                /\ CourseReported(e) = "changed"

\* C11 amended: such a course keeps the stored value of the first column
\* and adopts the snapshot's value of the second, every other stored value
\* stays, the row is in the dataset once, and update reports nothing about
\* it: the frame it returns holds only the courses that are new
C11_CourseChange ==
    (container = "course" /\ calls >= 1) =>
        \A i \in DOMAIN last.entries :
            LET e == last.entries[i]
            IN CourseChangeCase(e) =>
                /\ e.out = [e.left[1] EXCEPT !.label = e.right[1].label]
                /\ Count(courseData, e.out) = 1
                /\ KeyCount(CourseKeyCol(courseData), e.out.id) = 1
                /\ CourseReported(e) = "none"
                /\ \A r \in Range(last.result) : r.id # e.out.id

C11_Witness ==
    /\ container = "course"
    /\ calls = 1
    /\ \E i \in DOMAIN last.entries :
        /\ CourseChangeCase(last.entries[i])
        /\ last.entries[i].out \in Range(courseData)
        /\ last.entries[i].left[1].mrc = "1"
    /\ last.result # <<>>

\* a person snapshot row as DataContainer.validate_data hands it to
\* remove_duplicates
PersonNormRow(r) == [r EXCEPT !.ltype = NormCell(r.ltype), !.lcat = NormCell(r.lcat)]

\* C12: of the rows of a table that share a key and differ in their number
\* of null fields remove_duplicates returns the one with the fewest nulls
\* and no other row of the key, in whatever order the rows come; a row
\* whose key is unique is returned as it is
C12_DedupDeterminism ==
    (container = "person" /\ calls >= 1 /\ last.raw # <<>>) =>
        LET T == [i \in DOMAIN last.raw |-> PersonNormRow(last.raw[i])]
        IN \A i \in DOMAIN T :
            LET same == {j \in DOMAIN T : T[j].person = T[i].person}
            IN /\ KeyCount(PersonKeyCol(last.snap), T[i].person) = 1
               /\ (\A j \in same \ {i} : PersonNonNullCount(T[i]) > PersonNonNullCount(T[j]))
                    => T[i] \in Range(last.snap)
               /\ (\E j \in same : PersonNonNullCount(T[j]) > PersonNonNullCount(T[i]))
                    => (T[i] \notin Range(last.snap)
                            \/ \E j \in same : j # i /\ T[j] = T[i])

C12_Witness ==
    /\ container = "person"
    /\ calls = 1
    /\ Len(last.raw) = MaxPersonSnap
    /\ last.raw[1].person = last.raw[2].person
    /\ PersonNonNullCount(PersonNormRow(last.raw[1])) < PersonNonNullCount(PersonNormRow(last.raw[2]))
    /\ last.raw[3].person # last.raw[1].person
    /\ PersonNormRow(last.raw[2]) \in Range(last.snap)
    /\ PersonNormRow(last.raw[1]) \notin Range(last.snap)
    /\ PersonNormRow(last.raw[3]) \in Range(last.snap)
    /\ Len(last.snap) = 2

\* the key columns of the container's frames
KeyColsOf(c) ==
    IF c = "registration" THEN RegKeyCols
    ELSE IF c = "course" THEN CourseKeyCols
    ELSE PersonKeyCols

DataOf(c) ==
    IF c = "registration" THEN regData
    ELSE IF c = "course" THEN courseData
    ELSE personData

\* C13 as stated: an update whose snapshot lacks a key column fails with
\* an error and leaves the dataset as it was
C13_MissingKeyAsStated ==
    (calls = 1 /\ ~(KeyColsOf(container) \subseteq last.cols)) =>
        /\ last.error # "none"
        /\ DataOf(container) = last.before

\* C13 amended: an update whose snapshot has rows and lacks a key column
\* fails with an error (ValueError for courses, KeyError otherwise); the
\* dataset is as it was, also when the frame is empty: person update
\* returns at once for an empty frame, whatever its columns
C13_MissingKey ==
    (calls = 1 /\ ~(KeyColsOf(container) \subseteq last.cols)) =>
        /\ DataOf(container) = last.before
        /\ (container = "person" /\ last.raw = <<>> /\ last.error = "none")
            \/ last.error = IF container = "course" THEN "ValueError" ELSE "KeyError"

C13_Witness ==
    /\ container = "registration"
    /\ calls = 1
    /\ "person" \notin last.cols
    /\ last.error = "KeyError"
    /\ Len(regData) = MaxStored
    /\ regData = last.before

\* C14: update runs to its end for every snapshot that has the key
\* columns, with columns the stored dataset does not have or without
\* columns that are not keys
C14_ShapeTolerance ==
    (calls = 1 /\ KeyColsOf(container) \subseteq last.cols) => last.error = "none"

\* the courses of the table that carry the label
CoursesWithLabel(courses, l) == {j \in DOMAIN courses : courses[j].label = l}

\* the rows of D that are r apart from the course id
SameButCid(D, r) == {j \in DOMAIN D : [D[j] EXCEPT !.cid = r.cid] = r}

\* C15: after insert_course_id a registration whose label no course or more
\* than one course carries is not in the dataset; every other registration
\* is in it as often as before, with the id of the one course of its label
C15_JoinIntegrity ==
    (container = "run" /\ pc = "inserted") =>
        /\ \A i \in DOMAIN last.data :
            LET r == last.data[i]
                m == CoursesWithLabel(courseData, r.label)
            IN IF Cardinality(m) = 1
               THEN /\ Cardinality(SameButCid(regData, r)) = Cardinality(SameButCid(last.data, r))
                    /\ \A j \in SameButCid(regData, r) : \A c \in m : regData[j].cid = courseData[c].id
               ELSE SameButCid(regData, r) = {}
        /\ \A j \in DOMAIN regData : SameButCid(last.data, regData[j]) # {}

\* C16: after update_membership a person the member list does not hold has
\* the stored expiry when that is not null and not later than the end of
\* the previous timeframe, and the end of the previous timeframe otherwise
C16_MembershipCap ==
    (container = "member" /\ calls = 1) =>
        \A i \in DOMAIN last.before :
            LET old == last.before[i].expire
                prev == PreviousTimeframeEnd(last.today)
            IN Listed(last.list, last.before[i].person) = {} =>
                personData[i].expire =
                    IF old # NaT /\ DateNum(old) <= DateNum(prev) THEN old ELSE prev

\* C17: after update_membership a person the member list holds has the
\* expiry of the list when that is not null, and the end of the current
\* timeframe otherwise
C17_MembershipInheritance ==
    (container = "member" /\ calls = 1) =>
        \A i \in DOMAIN last.before :
            LET l == Listed(last.list, last.before[i].person)
            IN l # {} =>
                personData[i].expire =
                    IF last.list[FirstIn(l)].expire # NaT
                    THEN last.list[FirstIn(l)].expire
                    ELSE CurrentTimeframeEnd(last.today)

\* the datasets that differ from D only in status values among added,
\* unchanged and removed
StatusVariants(D) ==
    {[i \in DOMAIN D |-> IF D[i].status = "changed" THEN D[i] ELSE [D[i] EXCEPT !.status = f[i]]] :
        f \in [DOMAIN D -> {"added", "unchanged", "removed"}]}

\* a merged pair whose snapshot row holds what the stored row holds
IdenticalPair(e) ==
    /\ e.ind0 = "both"
    /\ e.left[1].reg = e.right[1].reg
    /\ e.left[1].part = e.right[1].part

\* C18: the dataset after a registration update is the same for stored
\* datasets that differ only in status values among added, unchanged and
\* removed, and a stored row marked changed that the snapshot matches with
\* the same values is classified changed
C18_StatusNotInherited ==
    (container = "registration" /\ calls >= 1 /\ last.error = "none") =>
        /\ \A V \in StatusVariants(last.before) : RegUpdate(V, last.raw).data = regData
        /\ \A i \in DOMAIN last.entries :
            (IdenticalPair(last.entries[i]) /\ last.entries[i].left[1].status = "changed")
                => last.entries[i].out.status = "changed"

C18_Witness ==
    /\ container = "registration"
    /\ calls = 2
    /\ last.error = "none"
    /\ \E r \in Range(last.before) : r.status = "added"
    /\ \E i \in DOMAIN last.entries :
        /\ IdenticalPair(last.entries[i])
        /\ last.entries[i].left[1].status = "changed"
        /\ last.entries[i].out.status = "changed"

\* the registrations manage_changed_registrations was called with
BeforeManage == InsertCourseId(last.data, courseData)

\* the registrations whose person has a mail address
WithPersonData(D) == Sel(D, {i \in DOMAIN D : PersonMail(D[i].person)})

\* C19 as stated: every registration has the same status in the dataset
\* before and after manage_changed_registrations and manage_pending_courses
C19_StatusKeptAsStated ==
    (container = "run" /\ pc \in {"managed", "reminded"}) =>
        /\ Len(regData) = Len(BeforeManage)
        /\ \A i \in DOMAIN regData :
            /\ KeyOf(regData[i]) = KeyOf(BeforeManage[i])
            /\ regData[i].status = BeforeManage[i].status

\* C19 amended: the registrations of persons without a mail address are
\* taken out of the dataset; every other registration is in the dataset
\* after manage_changed_registrations and manage_pending_courses with the
\* status it had before
C19_StatusKept ==
    (container = "run" /\ pc \in {"managed", "reminded"}) =>
        LET K == WithPersonData(BeforeManage)
        IN /\ Len(regData) = Len(K)
           /\ \A i \in DOMAIN regData :
                /\ KeyOf(regData[i]) = KeyOf(K[i])
                /\ regData[i].cid = K[i].cid
                /\ regData[i].status = K[i].status

C19_Witness ==
    /\ container = "run"
    /\ pc = "reminded"
    /\ Len(regData) < Len(BeforeManage)
    /\ \E j \in DOMAIN courseData : courseData[j].mrc = "1"
    /\ \E i \in DOMAIN regData :
        /\ regData[i].status = "changed"
        /\ regData[i].part = "pending"
        /\ WithPersonData(BeforeManage)[i].part = "failed"

\* C20: as long as the run has not reached its first save, and after a
\* failure before it, no data file is on disk that was not there when the
\* run started, and the latest file of every container is the one that was
\* the latest then
C20_CrashSafety ==
    (container = "persist" /\ pc \in BeforeSave \cup {"crashed_before_save"}) =>
        \A e \in Range(Entities) :
            /\ Range(disk[e]) \subseteq Range(atStart[e])
            /\ atStart[e] # <<>> =>
                /\ disk[e] # <<>>
                /\ disk[e][Len(disk[e])] = atStart[e][Len(atStart[e])]

C20_Witness ==
    /\ container = "persist"
    /\ pc = "crashed_before_save"
    /\ disk["registration"] # <<>>
    /\ disk["registration"][Len(disk["registration"])].by = 1
    /\ \E e \in Range(Entities) : Len(disk[e]) < Len(atStart[e])

\* the largest keep_n looked at
MaxKeepN == 4

\* K holds the last of the files, in their order
IsSuffix(K, files) ==
    /\ Len(K) <= Len(files)
    /\ \A i \in DOMAIN K : K[i] = files[Len(files) - Len(K) + i]

\* the steps that follow a load
AfterLoad == {After(st) : st \in LoadSteps}

\* the latest files of load for every positive keep_n, and what load left
\* on disk and read
RetentionOfLoad ==
    (container = "persist" /\ pc \in AfterLoad) =>
        /\ \A n \in 1..MaxKeepN :
            /\ IsSuffix(KeepLatestN(last.before, n), last.before)
            /\ Len(KeepLatestN(last.before, n)) = Min(n, Len(last.before))
        /\ disk[last.entity] = KeepLatestN(last.before, KeepN)
        /\ last.before # <<>> => last.read = <<last.before[Len(last.before)]>>

\* C21 as stated: after load the min(keep_n, number of files) latest files
\* are on disk and the latest was read; a run that ended has added one file
\* of its own to those load left
C21_RetentionAsStated ==
    /\ RetentionOfLoad
    /\ (container = "persist" /\ pc = "exited") =>
        \A e \in Range(Entities) :
            Len(disk[e]) = Min(KeepN, Len(atStart[e])) + 1

\* C21 amended: after load the min(keep_n, number of files) latest files
\* are on disk and the latest was read; a run that ended has left the files
\* of load as they were, or has written the file named by today as the
\* latest, in place of a file of that name
C21_Retention ==
    /\ RetentionOfLoad
    /\ (container = "persist" /\ pc = "exited") =>
        \A e \in Range(Entities) :
            LET K == KeepLatestN(atStart[e], KeepN)
                n == Len(disk[e])
                old == {i \in DOMAIN K : K[i].name # day}
            IN \/ disk[e] = K
               \/ /\ n = Cardinality(old) + 1
                  /\ disk[e][n] = DataFile(day, run - 1)
                  /\ SubSeq(disk[e], 1, n - 1) = Sel(K, old)

C21_Witness ==
    /\ container = "persist"
    /\ pc = "exited"
    /\ Len(atStart["course"]) = 3 /\ Len(disk["course"]) = 3
    /\ disk["course"][3].by = run - 1
    /\ Len(atStart["person"]) = 1 /\ Len(disk["person"]) = 1
    /\ disk["person"][1].by = run - 1
    /\ disk["registration"] = atStart["registration"]

\* a cell that cannot be parsed into the type of its column
Unparseable(c) == c.t = "str" /\ c.v \in {"x", "soon"}

\* C22: validate_data returns, a cell of an int or datetime column that
\* cannot be parsed is null afterwards, every other cell of these columns
\* holds its value
C22_CoercionRecovery ==
    (container = "validate" /\ calls = 1) =>
        /\ last.error = "none"
        /\ Len(personData) = Len(last.before)
        /\ \A i \in DOMAIN personData :
            /\ Unparseable(last.before[i].help) => personData[i].help = NaN
            /\ Unparseable(last.before[i].since) => personData[i].since = NaN
            /\ ~Unparseable(last.before[i].help) => personData[i].help.v = last.before[i].help.v
            /\ ~Unparseable(last.before[i].since) => personData[i].since.v = last.before[i].since.v

\* C28: a cell of a bool column is true after validate_data exactly when it
\* was the boolean true or the string True or true, and validating what
\* validate_data returned changes no cell of the column
C28_BooleanSurvives ==
    (container = "validate" /\ calls >= 1 /\ last.error = "none") =>
        \A i \in DOMAIN personData :
            /\ personData[i].wants = Cell("bool", "True") <=>
                \/ last.before[i].wants = Cell("bool", "True")
                \/ last.before[i].wants \in {Cell("str", "True"), Cell("str", "true")}
            /\ calls = 2 => personData[i].wants = last.before[i].wants

\* the ids of the courses of a dataset
CourseIdsOf(D) == {D[i].id : i \in DOMAIN D}

\* C23: course update returns the rows of the merged dataset whose id the
\* stored dataset did not hold, the later registration_start first; an
\* update with the same snapshot again returns no row
C23_NewCourseResult ==
    (container = "course" /\ calls >= 1 /\ last.error = "none") =>
        /\ SameBag(last.result,
                   Sel(courseData, {i \in DOMAIN courseData :
                                        courseData[i].id \notin CourseIdsOf(last.before)}))
        /\ \A i \in DOMAIN last.result : \A j \in DOMAIN last.result :
            i < j => Rank(DateOrder, CourseRegStart(last.result[i].id))
                        >= Rank(DateOrder, CourseRegStart(last.result[j].id))
        /\ calls = 2 => last.result = <<>>

C23_Witness ==
    /\ container = "course"
    /\ calls = 2
    /\ last.error = "none"
    /\ Len(first.result) = 2
    /\ first.before = <<>>
    /\ last.result = <<>>

\* C24: assert_deep_data fetches the requested courses whose stored row
\* has all eight deep fields null and no other course, and leaves the
\* dataset as it was when it fetches none
C24_DeepDataCompletion ==
    (container = "deep" /\ calls = 1) =>
        /\ last.fetched =
            {c \in last.lids : \E i \in DOMAIN last.before :
                last.before[i].id = c /\ last.before[i].deepNull = DeepDataCount}
        /\ last.fetched = {} => courseData = last.before

\* C25: a merged pair whose stored row was not marked changed is classified
\* changed only when the update altered the stored participation_status or
\* registration_status
C25_ChangedImpliesAltered ==
    (container = "registration" /\ calls >= 1 /\ last.error = "none") =>
        \A i \in DOMAIN last.entries :
            LET e == last.entries[i]
            IN (e.ind0 = "both" /\ e.left[1].status # "changed" /\ e.out.status = "changed")
                => \/ e.out.part # e.left[1].part
                   \/ e.out.reg # e.left[1].reg

\* the course table of the run: the file between two runs, the loaded
\* dataset within one
CoursesNow == IF pc = "start" THEN file ELSE courseData

\* a counter of row b is the one of row a or one higher
CountStep(a, b) ==
    /\ CountValue(b.mrc) \in {CountValue(a.mrc), CountValue(a.mrc) + 1}
    /\ CountValue(b.prc) \in {CountValue(a.prc), CountValue(a.prc) + 1}

\* C26: over the runs (load, update, manage_pending_courses, save) the
\* reminder counts of a course never decrease and grow by at most 1 per
\* run, neither exceeds the number of configured reminder days of its
\* kind, and update leaves both counts of a stored course as they were
C26_ReminderCounts ==
    container = "remind" =>
        /\ \A i \in DOMAIN atStart : \A j \in DOMAIN CoursesNow :
              CoursesNow[j].id = atStart[i].id => CountStep(atStart[i], CoursesNow[j])
        /\ \A j \in DOMAIN CoursesNow :
              /\ CountValue(CoursesNow[j].mrc) <= ManagementReminderDays
              /\ CountValue(CoursesNow[j].prc) <= PlayerReminderDays
        /\ pc = "updated" =>
              \A i \in DOMAIN atStart : \A j \in DOMAIN courseData :
                 courseData[j].id = atStart[i].id =>
                    /\ courseData[j].mrc = atStart[i].mrc
                    /\ courseData[j].prc = atStart[i].prc

\* a later run saved a course whose two counts grew to the numbers of
\* reminder days, beside a course the portal added in that run
C26_Witness ==
    /\ container = "remind"
    /\ pc = "start"
    /\ run = MaxRuns + 1
    /\ \E i \in DOMAIN atStart : \E j \in DOMAIN file :
          /\ file[j].id = atStart[i].id
          /\ CountValue(atStart[i].mrc) = ManagementReminderDays - 1
          /\ CountValue(file[j].mrc) = ManagementReminderDays
          /\ CountValue(atStart[i].prc) = PlayerReminderDays - 1
          /\ CountValue(file[j].prc) = PlayerReminderDays
    /\ \E j \in DOMAIN file : \A i \in DOMAIN atStart : file[j].id # atStart[i].id

\* C29: with mails_only_to_management set, every mail a send operation
\* hands to the SMTP server goes to the management report address and to
\* no other recipient, whatever operations were sent before
C29_ManagementOnly ==
    (container = "mail" /\ mailer.mails_only_to_management) =>
        \A i \in DOMAIN mails : mails[i].rcpt = mailer.management_report_mail

\* two send operations in that mode, the later one for a player whose
\* address is not the management's
C29_Witness ==
    /\ container = "mail"
    /\ mailer.mails_only_to_management
    /\ calls = MaxSends
    /\ Len(mails) >= 2
    /\ mails[Len(mails)].to # mailer.management_report_mail
    /\ mails[Len(mails)].rcpt = mailer.management_report_mail

\* C27: once add_registrations got a table with rows, for whatever reason,
\* has_content() is true and get_html_message() returns a report, which
\* disable() mails and writes at the end of the run
C27_ReportNeverLost ==
    (container = "report" /\ first # {}) =>
        /\ HasContent(report)
        /\ GetHtmlMessage(report) # None
        /\ pc = "done" =>
              /\ last.html # None
              /\ Len(mails) = 1
              /\ last.written = last.html

\* the keys of the table the latest increment_data_value got
FailedKeys == IF last.df.given THEN Range(last.df.rows) ELSE {}

\* C30: an increment_data_value that returned raised
\* failed_higher_license_count by exactly 1 for each distinct person of the
\* table, however many rows the table has for the person, left the count
\* of every other person and every other column as it was, and did nothing
\* for an empty or a missing table
C30_IncrementOncePerPerson ==
    (container = "increment" /\ calls > 0 /\ last.error = "none") =>
        /\ personData = last.data
        /\ Len(last.data) = Len(last.before)
        /\ \A i \in DOMAIN last.before :
              last.data[i] =
                 IF last.before[i].person \in FailedKeys
                 THEN [last.before[i] EXCEPT !.failed = AddCount(@, 1)]
                 ELSE last.before[i]
        /\ (~last.df.given \/ last.df.rows = <<>>) => last.data = last.before

\* a table with two rows for one person, on a dataset of two persons
C30_Witness ==
    /\ container = "increment"
    /\ calls > 0
    /\ last.error = "none"
    /\ Len(last.before) = 2
    /\ Len(last.df.rows) = 2
    /\ Cardinality(FailedKeys) = 1
    /\ \E i \in DOMAIN last.data : last.data[i].failed # last.before[i].failed

============================================================================
